---- MODULE Spec2Model ----
(***************************************************************************)
(* Model of the batch scoring-and-publishing pipeline                      *)
(* (sagemaker-pipelines/src/inference/app: score_to_kafka.py, kafka_io.py, *)
(* model_io.py).                                                           *)
(*                                                                         *)
(* A pandas DataFrame is a record                                          *)
(*     [columns : sequence of column names,                                *)
(*      dtypes  : column name -> "num" | "obj",                            *)
(*      rows    : sequence of (column name -> cell)]                       *)
(* Cells are integers: a numeric cell is a number >= 0, NaN is the missing *)
(* cell (numpy NaN / None), Unknown is the literal string 'Unknown', and   *)
(* the cells of object columns are codes of strings.                       *)
(***************************************************************************)
EXTENDS Integers, Sequences, FiniteSets, TLC

VARIABLES
    pc,            \* position of the caller: which call returned last
    env,           \* os.environ of the process (main)
    world,         \* behaviour of the external collaborators in this run; in
                   \* the scoring chain, the predictor generate_predictions met
    run,           \* what main() did: steps executed, exit code, error
    model_loader,  \* the MLflowModelLoader: what its getters return
    args,          \* argparse.Namespace
    df,            \* the DataFrame handed to preprocess_data
    processed,     \* the DataFrame preprocess_data returned
    predictions,   \* the DataFrame generate_predictions returned
    kafka          \* what batch_process_and_send_to_kafka did and returned

vars == <<pc, env, world, run, model_loader, args, df, processed, predictions, kafka>>

\* The value of a variable a specification does not use.
Unused == "unused"

Range(s) == {s[i] : i \in DOMAIN s}

Min(a, b) == IF a <= b THEN a ELSE b

Max(a, b) == IF a >= b THEN a ELSE b

(***************************************************************************)
(* DataFrames                                                              *)
(***************************************************************************)

\* The missing cell: df.isnull() is true of it, fillna replaces it.
NaN == -1

\* The cell fillna('Unknown') writes.
Unknown == -2

\* get_expected_features() returned None (or an empty list): `if expected_features:`
\* is false of both.
NoFeatures == <<>>

\* The columns get_s3_input_data_for_window adds to every loaded frame.
ProvenanceColumns == <<"source_file", "ingestion_time">>

\* set(df.columns)
ColumnSet(d) == Range(d.columns)

\* len(df)
NRows(d) == Len(d.rows)

\* df[feature] = 0 for every feature of `features` the frame lacks: the new
\* columns are appended (in the set's iteration order) as integer columns.
RECURSIVE AppendColumns(_, _)
AppendColumns(cols, missing) ==
    IF missing = {} THEN cols
    ELSE LET c == CHOOSE x \in missing : TRUE
         IN  AppendColumns(Append(cols, c), missing \ {c})

WithMissingFeatures(d, features) ==
    LET missing_features == Range(features) \ ColumnSet(d)
    IN  [columns |-> AppendColumns(d.columns, missing_features),
         dtypes  |-> [c \in ColumnSet(d) \cup missing_features |->
                        IF c \in missing_features THEN "num" ELSE d.dtypes[c]],
         rows    |-> [i \in 1..NRows(d) |->
                        [c \in ColumnSet(d) \cup missing_features |->
                            IF c \in missing_features THEN 0 ELSE d.rows[i][c]]]]

\* Mutant of SelectColumns: the selection keeps the frame's own columns.
SelectColumnsKeepAll(d, features) == d

\* df[expected_features]: the listed columns, in the listed order.
SelectColumns(d, features) ==
    [columns |-> features,
     dtypes  |-> [c \in Range(features) |-> d.dtypes[c]],
     rows    |-> [i \in 1..NRows(d) |-> [c \in Range(features) |-> d.rows[i][c]]]]

\* df.isnull().any().any()
AnyNull(d) == \E i \in 1..NRows(d) : \E c \in ColumnSet(d) : d.rows[i][c] = NaN

\* The non-missing cells of a column, in row order.
NonMissing(d, c) ==
    SelectSeq([i \in 1..NRows(d) |-> d.rows[i][c]], LAMBDA v : v # NaN)

\* The k-th smallest element of a non-empty sequence of numbers.
KthSmallest(s, k) ==
    CHOOSE v \in Range(s) :
        /\ Cardinality({i \in DOMAIN s : s[i] < v}) < k
        /\ k <= Cardinality({i \in DOMAIN s : s[i] <= v})

\* DataFrame.median() of one column: NaN cells are skipped, the mean of the two
\* middle values for an even count, and NaN for a column with no value at all.
Median(d, c) ==
    LET s == NonMissing(d, c)
        n == Len(s)
    IN  IF n = 0 THEN NaN
        ELSE IF n % 2 = 1 THEN KthSmallest(s, (n + 1) \div 2)
        ELSE (KthSmallest(s, n \div 2) + KthSmallest(s, n \div 2 + 1)) \div 2

\* Mutant of FillMissing: only the first missing cell of each column is filled.
FillMissingFirstOnly(d) ==
    IF ~AnyNull(d) THEN d
    ELSE [d EXCEPT !.rows =
            [i \in 1..NRows(d) |->
                [c \in ColumnSet(d) |->
                    IF d.rows[i][c] # NaN THEN d.rows[i][c]
                    ELSE IF \E j \in 1..(i - 1) : d.rows[j][c] = NaN THEN NaN
                    ELSE IF d.dtypes[c] = "num" THEN Median(d, c)
                    ELSE Unknown]]]

\* Lines 195-201: numeric columns are filled with their median, the others
\* with 'Unknown'; nothing is touched when no cell is missing.
FillMissing(d) ==
    IF ~AnyNull(d) THEN d
    ELSE [d EXCEPT !.rows =
            [i \in 1..NRows(d) |->
                [c \in ColumnSet(d) |->
                    IF d.rows[i][c] # NaN THEN d.rows[i][c]
                    ELSE IF d.dtypes[c] = "num" THEN Median(d, c)
                    ELSE Unknown]]]

\* preprocess_data(df, model_loader), given what get_expected_features() returns.
preprocess_data(d, expected_features) ==
    LET aligned == IF expected_features # NoFeatures
                   THEN SelectColumns(WithMissingFeatures(d, expected_features),
                                      expected_features)
                   ELSE d
    IN  FillMissing(aligned)

\* A loaded MLflowModelLoader, by what its getters return: the expected
\* features (NoFeatures for None), the registry version, the predictor's classes_.
Loader(features) ==
    [expected_features |-> features, model_version |-> "3", class_names |-> <<"0", "1", "2">>]

\* A loaded MLflowModelLoader whose predictor has the given classes_; <<>> is
\* a predictor without classes_ (get_class_names() returns None).
LoaderWithClasses(features, class_names) ==
    [expected_features |-> features, model_version |-> "3", class_names |-> class_names]

get_expected_features(loader) == loader.expected_features

get_model_version(loader) == loader.model_version

\* Mutant of get_class_names: the class names are not found.
get_class_names_none(loader) == <<>>

get_class_names(loader) == loader.class_names

(***************************************************************************)
(* generate_predictions (score_to_kafka.py) over MLflowModelLoader.predict *)
(* and predict_proba (model_io.py).  The underlying predictor is an input: *)
(*   [predict : [kind : "values" | "reject", values : one prediction per   *)
(*               row],                                                     *)
(*    proba   : [kind : "values" | "unsupported" | "reject",               *)
(*               values : one probability row per row, in tenths]]         *)
(* A prediction is [kind : "int" | "float" | "str", v : number]: a numpy   *)
(* integer, a float, or a class label that is no number.                   *)
(***************************************************************************)

\* predict_proba returned None.
NoProba == <<>>

\* results[c] = vals: an existing column is overwritten in place, a new one is
\* appended.
SetColumn(d, c, dtype, vals) ==
    [columns |-> IF c \in ColumnSet(d) THEN d.columns ELSE Append(d.columns, c),
     dtypes  |-> [k \in ColumnSet(d) \cup {c} |-> IF k = c THEN dtype ELSE d.dtypes[k]],
     rows    |-> [i \in 1..NRows(d) |->
                    [k \in ColumnSet(d) \cup {c} |->
                        IF k = c THEN vals[i] ELSE d.rows[i][k]]]]

\* results[c] = v for a scalar v.
SetScalar(d, c, dtype, v) == SetColumn(d, c, dtype, [i \in 1..NRows(d) |-> v])

\* MLflowModelLoader.predict: the predictor's error propagates.
predict(predictor) == predictor.predict

\* MLflowModelLoader.predict_proba: None when the predictor has no
\* predict_proba, and None as well when its predict_proba raises.
predict_proba(predictor) ==
    IF predictor.proba.kind = "values" THEN predictor.proba.values ELSE NoProba

\* Mutant of RowMax: the least probability of the row.
RowMin(p) == CHOOSE m \in Range(p) : \A x \in Range(p) : m <= x

\* np.max(prediction_probabilities, axis=1), for one row.
RowMax(p) == CHOOSE m \in Range(p) : \A x \in Range(p) : x <= m

\* prediction_probabilities.shape[1]
NClasses(proba) == IF Len(proba) = 0 THEN 0 ELSE Len(proba[1])

\* f'prob_{class_name}'
ProbColumn(class_name) ==
    CASE class_name = "0" -> "prob_0"
      [] class_name = "1" -> "prob_1"
      [] class_name = "2" -> "prob_2"

\* Lines 238-239: one prob_<label> column per class name.
RECURSIVE WithClassColumns(_, _, _, _)
WithClassColumns(d, class_names, proba, i) ==
    IF i > Len(class_names) THEN d
    ELSE WithClassColumns(
            SetColumn(d, ProbColumn(class_names[i]), "num",
                      [r \in 1..NRows(d) |-> proba[r][i]]),
            class_names, proba, i + 1)

\* Lines 229-244, for probabilities that are not None.
WithProbabilities(d, proba, loader, a) ==
    IF NClasses(proba) = 2
    THEN LET r1 == SetColumn(d, "prediction_probability", "num",
                             [r \in 1..NRows(d) |-> proba[r][2]])
             r2 == SetColumn(r1, "prediction_confidence", "num",
                             [r \in 1..NRows(d) |-> RowMax(proba[r])])
             r3 == SetColumn(r2, "high_confidence", "bool",
                             [r \in 1..NRows(d) |-> r2.rows[r]["prediction_confidence"] > 8])
         IN  SetColumn(r3, "above_threshold", "bool",
                       [r \in 1..NRows(d) |->
                           r3.rows[r]["prediction_probability"] > a.prediction_threshold])
    ELSE LET r1 == SetColumn(d, "prediction_confidence", "num",
                             [r \in 1..NRows(d) |-> RowMax(proba[r])])
         IN  IF get_class_names(loader) # <<>>
             THEN WithClassColumns(r1, get_class_names(loader), proba, 1)
             ELSE r1

\* Line 239: prediction_probabilities[:, i] raises IndexError for a class name
\* beyond the last column.
ClassIndexError(proba, loader) ==
    /\ proba # NoProba
    /\ NClasses(proba) # 2
    /\ Len(get_class_names(loader)) > NClasses(proba)

\* generate_predictions(df, model_loader, args): [error, results].
generate_predictions(d, loader, a, predictor) ==
    IF predict(predictor).kind = "reject"
    THEN [error |-> "PredictionError", results |-> <<>>]
    ELSE IF ClassIndexError(predict_proba(predictor), loader)
    THEN [error |-> "PredictionError", results |-> <<>>]
    ELSE LET proba == predict_proba(predictor)
             r1 == SetColumn(d, "prediction", "num", predict(predictor).values)
             r2 == SetScalar(r1, "prediction_timestamp", "obj", "now")
             r3 == SetScalar(r2, "model_name", "obj", "poem-model")
             r4 == SetScalar(r3, "model_version", "obj", get_model_version(loader))
             r5 == SetScalar(r4, "model_stage", "obj", "Production")
         IN  [error   |-> "none",
              results |-> IF proba # NoProba
                          THEN WithProbabilities(r5, proba, loader, a)
                          ELSE r5]

(***************************************************************************)
(* KafkaProducer (kafka_io.py).  The producer object is                    *)
(*   [producer : "Producer" | "None", message_count, log, transport]       *)
(* where log is the sequence of calls made on the confluent_kafka          *)
(* Producer, and transport says what its flush does: "acks" (everything    *)
(* is delivered), "leaves_unacked" (it returns a number > 0 of messages    *)
(* still in the queue) or "flush_raises".  The fate of a message is an     *)
(* input: "ok", "serialize_error" (json.dumps raises) or "produce_error"   *)
(* (Producer.produce raises).                                              *)
(***************************************************************************)

Transports == {"acks", "leaves_unacked", "flush_raises"}

Fates == {"ok", "serialize_error", "produce_error"}

\* KafkaProducer.send_message: [kp, raised].
send_message(kp, message, key, fate) ==
    IF kp.producer = "None" THEN [kp |-> kp, raised |-> TRUE]
    ELSE IF fate = "serialize_error" THEN [kp |-> kp, raised |-> TRUE]
    ELSE IF fate = "produce_error" THEN [kp |-> kp, raised |-> TRUE]
    ELSE [kp |-> [kp EXCEPT !.message_count = @ + 1,
                            !.log = @ \o << [op |-> "produce", key |-> key, value |-> message],
                                           [op |-> "poll", key |-> 0, value |-> <<>>] >>],
          raised |-> FALSE]

\* Mutant of flush: a flush that raises leaves the producer closed.
flush_closing_on_error(kp) ==
    IF kp.producer = "None" THEN kp
    ELSE IF kp.transport = "flush_raises" THEN [kp EXCEPT !.producer = "None"]
    ELSE [kp EXCEPT !.log = Append(@, [op |-> "flush", key |-> 0, value |-> <<>>])]

\* KafkaProducer.flush: a no-op on a closed producer; Producer.flush is
\* called, and what it returns (lines 225-228) or raises (lines 230-231) is
\* logged only.
flush(kp) ==
    IF kp.producer = "None" THEN kp
    ELSE LET called == [kp EXCEPT !.log = Append(@, [op |-> "flush", key |-> 0, value |-> <<>>])]
         IN  CASE kp.transport = "flush_raises"   -> called
               [] kp.transport = "leaves_unacked" -> called
               [] OTHER                           -> called

\* The row labels of the messages handed to Producer.produce, in call order.
ProducedRows(kp) ==
    LET produced == SelectSeq(kp.log, LAMBDA e : e.op = "produce")
    IN  [k \in 1..Len(produced) |-> produced[k].value.message.row_name]

\* The payloads handed to Producer.produce, in call order.
ProducedMessages(kp) ==
    LET produced == SelectSeq(kp.log, LAMBDA e : e.op = "produce")
    IN  [k \in 1..Len(produced) |-> produced[k].value.message]

\* Mutant of SendLoop: the loop ends at the first message that fails.
RECURSIVE SendLoopStopAtFailure(_, _, _, _, _)
SendLoopStopAtFailure(kp, messages, fates, i, success_count) ==
    IF i > Len(messages) THEN [kp |-> kp, success_count |-> success_count]
    ELSE LET enriched_message == [message     |-> messages[i],
                                  batch_index |-> i - 1,
                                  batch_size  |-> Len(messages)]
             sent == send_message(kp, enriched_message, i - 1, fates[i])
         IN  IF sent.raised THEN [kp |-> kp, success_count |-> success_count]
             ELSE SendLoopStopAtFailure(sent.kp, messages, fates, i + 1, success_count + 1)

\* Lines 186-204 of send_batch: messages i.. of the list, one after the other.
RECURSIVE SendLoop(_, _, _, _, _)
SendLoop(kp, messages, fates, i, success_count) ==
    IF i > Len(messages) THEN [kp |-> kp, success_count |-> success_count]
    ELSE LET enriched_message == [message     |-> messages[i],
                                  batch_index |-> i - 1,
                                  batch_size  |-> Len(messages)]
             sent == send_message(kp, enriched_message, i - 1, fates[i])
         IN  SendLoop(sent.kp, messages, fates, i + 1,
                      IF sent.raised THEN success_count ELSE success_count + 1)

\* KafkaProducer.send_batch(messages): [kp, raised, success_count].
send_batch(kp, messages, fates) ==
    IF kp.producer = "None"
    THEN [kp |-> kp, raised |-> TRUE, success_count |-> 0]
    ELSE LET done == SendLoop(kp, messages, fates, 1, 0)
         IN  [kp |-> flush(done.kp), raised |-> FALSE, success_count |-> done.success_count]

(***************************************************************************)
(* batch_process_and_send_to_kafka (score_to_kafka.py)                     *)
(***************************************************************************)

\* The labels line 281 drops from the row to get the features.
DroppedLabels ==
    {"prediction", "prediction_timestamp", "model_name", "model_version",
     "model_stage", "source_file", "ingestion_time"}

OptionalFields ==
    {"prediction_probability", "prediction_confidence", "high_confidence",
     "above_threshold"}

\* Lines 275-302 raise: Series.drop raises KeyError for a label the row lacks,
\* and float() raises ValueError for a prediction that is no number.
BuildFails(row) ==
    \/ ~(DroppedLabels \subseteq DOMAIN row)
    \/ row["prediction"].kind = "str"

\* row.get(label, default)
RowGet(row, label, default) == IF label \in DOMAIN row THEN row[label] ELSE default

\* Lines 275-302: the message of one row, given <<the batch number, row.name>>.
\* row_name is no field of the payload: it tells the records apart.
BuildMessage(row, processing_batch) ==
    [row_name      |-> processing_batch[2],
     timestamp     |-> row["prediction_timestamp"],
     model_name    |-> row["model_name"],
     model_version |-> row["model_version"],
     model_stage   |-> row["model_stage"],
     prediction    |-> row["prediction"],
     features      |-> [c \in DOMAIN row \ DroppedLabels |-> row[c]],
     optional      |-> [c \in DOMAIN row \cap OptionalFields |-> row[c]],
     audit         |-> [source_file      |-> RowGet(row, "source_file", "unknown"),
                        ingestion_time   |-> RowGet(row, "ingestion_time", "None"),
                        processing_batch |-> processing_batch[1]]]

\* Lines 271-308: the rows lo+1..hi of the frame, in order; names are the
\* row labels (row.name) of the rows whose message was built.
RECURSIVE BuildLoop(_, _, _, _, _)
BuildLoop(d, r, hi, processing_batch, acc) ==
    IF r > hi THEN acc
    ELSE BuildLoop(d, r + 1, hi, processing_batch,
            IF BuildFails(d.rows[r])
            THEN [acc EXCEPT !.error_count = @ + 1]
            ELSE [acc EXCEPT !.messages = Append(@, BuildMessage(d.rows[r], <<processing_batch, r>>)),
                             !.names = Append(@, r)])

\* Lines 264-318: the batch that starts at offset i (0-based), then the next.
RECURSIVE BatchLoop(_, _, _, _, _)
BatchLoop(d, a, fate, i, st) ==
    IF i >= NRows(d) THEN st
    ELSE LET batch_end == Min(i + a.max_records_per_batch, NRows(d))
             built == BuildLoop(d, i + 1, batch_end, i \div a.max_records_per_batch + 1,
                                [messages |-> <<>>, names |-> <<>>, error_count |-> 0])
             sent == send_batch(st.kp, built.messages,
                                [k \in 1..Len(built.names) |-> fate[built.names[k]]])
             st1 == [st EXCEPT !.error_count = @ + built.error_count,
                               !.batches = Append(@, [k \in 1..(batch_end - i) |-> i + k])]
             st2 == IF built.messages = <<>> THEN st1
                    ELSE IF sent.raised
                    THEN [st1 EXCEPT !.error_count = @ + Len(built.messages)]
                    ELSE [st1 EXCEPT !.success_count = @ + sent.success_count,
                                     !.kp = sent.kp]
         IN  BatchLoop(d, a, fate, i + a.max_records_per_batch, st2)

\* Mutant of BatchesProcessed: the division rounds down.
BatchesProcessedFloor(total_records, max_records_per_batch) ==
    total_records \div max_records_per_batch

\* Line 328: 'batches_processed'.
BatchesProcessed(total_records, max_records_per_batch) ==
    (total_records + max_records_per_batch - 1) \div max_records_per_batch

\* batch_process_and_send_to_kafka(predictions_df, kafka_producer, args):
\* the results dictionary, the producer afterwards, and the batches formed
\* (each the sequence of the row numbers of its batch_df).
batch_process_and_send_to_kafka(d, kp, a, fate) ==
    LET total_records == NRows(d)
        st == BatchLoop(d, a, fate, 0,
                        [success_count |-> 0, error_count |-> 0, kp |-> kp, batches |-> <<>>])
    IN  [results |->
            [total_predictions |-> total_records,
             successful_sends  |-> st.success_count,
             failed_sends      |-> st.error_count,
             success_rate      |-> IF total_records > 0
                                   THEN <<st.success_count, total_records>>
                                   ELSE <<0, 1>>,
             batches_processed |-> BatchesProcessed(total_records, a.max_records_per_batch)],
         kp      |-> flush(st.kp),
         batches |-> st.batches]

(***************************************************************************)
(* Inputs of preprocess_data                                               *)
(***************************************************************************)

\* Most rows in a frame handed to preprocess_data.
MaxRows == 3

\* Numeric cells are even so that the mean of two of them is a whole number.
NumCells == {NaN, 0, 2}

\* Cells of the object column "x": missing, or the code of a string.
ObjCells == {NaN, 7}

\* The data columns of the input files, before the provenance columns.
Layouts == { <<"a", "b">>, <<"x", "a">>, <<"b", "x">> }

DType(c) == IF c \in {"a", "b", "c"} THEN "num" ELSE "obj"

CellsOf(c) == IF c \in {"a", "b"} THEN NumCells ELSE ObjCells

\* What get_expected_features() may return: feature lists, or None.
Schemas == { <<"a", "b">>, <<"b", "a">>, <<"a", "c", "b">>, <<"x", "a">>, NoFeatures }

\* A loaded frame: the data columns, then source_file and ingestion_time.
\* Row i comes from the object whose key is coded keys[i], loaded at 100 + keys[i].
Frame(layout, data, keys) ==
    [columns |-> layout \o ProvenanceColumns,
     dtypes  |-> [c \in Range(layout) \cup Range(ProvenanceColumns) |-> DType(c)],
     rows    |-> [i \in 1..Len(data) |->
                    [c \in Range(layout) \cup Range(ProvenanceColumns) |->
                        IF c = "source_file" THEN keys[i]
                        ELSE IF c = "ingestion_time" THEN 100 + keys[i]
                        ELSE data[i][c]]]]

\* The rows of n cells each, one per data column.
RowsOf(layout, n) ==
    [1..n -> {r \in [Range(layout) -> NumCells \cup ObjCells] :
                \A c \in Range(layout) : r[c] \in CellsOf(c)}]

PreFrames ==
    UNION { { Frame(layout, data, [i \in 1..n |-> 1]) : data \in RowsOf(layout, n) } :
            <<layout, n>> \in Layouts \X (1..MaxRows) }

InitPre ==
    /\ pc = "loaded"
    /\ df \in PreFrames
    /\ model_loader \in {Loader(f) : f \in Schemas}
    /\ processed = Unused
    /\ env = Unused /\ world = Unused /\ run = Unused /\ args = Unused
    /\ predictions = Unused /\ kafka = Unused

\* processed_data = preprocess_data(input_data, model_loader)
Preprocess ==
    /\ pc = "loaded"
    /\ processed' = preprocess_data(df, get_expected_features(model_loader))
    /\ pc' = "preprocessed"
    /\ UNCHANGED <<env, world, run, model_loader, args, df, predictions, kafka>>

\* preprocess_data applied to its own output, for the same loaded model; the
\* output of the first call is kept in run.first_output.
PreprocessAgain ==
    /\ pc = "preprocessed"
    /\ run = Unused
    /\ run' = [first_output |-> processed]
    /\ processed' = preprocess_data(processed, get_expected_features(model_loader))
    /\ pc' = "preprocessed_again"
    /\ UNCHANGED <<env, world, model_loader, args, df, predictions, kafka>>

NextPre == Preprocess \/ PreprocessAgain

SpecPre == InitPre /\ [][NextPre]_vars

(***************************************************************************)
(* The calls of main's lines 425-431 in sequence: preprocess_data,         *)
(* generate_predictions, batch_process_and_send_to_kafka, on a loaded      *)
(* frame, a loaded model and an open producer.                             *)
(***************************************************************************)

\* Most records in a frame handed to the publisher.
MaxRecords == 3

\* Largest --max_records_per_batch tried.
MaxBatch == 3

PipeSchemas ==
    { <<"a", "b">>, <<"b", "c">>, <<"a", "source_file", "ingestion_time">>, NoFeatures }

\* Frames of n rows of the columns a, b: either every row comes from the object
\* with key 1, or the first half does and the rest comes from the object with key 2.
PipeFrames ==
    { Frame(<<"a", "b">>, [i \in 1..n[1] |-> [c \in {"a", "b"} |-> 0]],
            [i \in 1..n[1] |-> IF i <= n[2] THEN 1 ELSE 2]) :
      n \in {m \in (0..MaxRecords) \X (0..MaxRecords) : m[2] \in {m[1], m[1] \div 2}} }

PredValues ==
    { [kind |-> "int", v |-> 1], [kind |-> "float", v |-> 1], [kind |-> "str", v |-> 0] }

\* The probability rows (in tenths) a predictor returns for row r.
BinaryRow(r) == IF r % 2 = 1 THEN <<9, 1>> ELSE <<3, 7>>

MultiRow(r) == IF r % 2 = 1 THEN <<2, 7, 1>> ELSE <<5, 3, 2>>

\* The probability row of a predictor fitted on a single class.
SingleRow(r) == <<10>>

ProbaBehaviours(n) ==
    { [kind |-> "unsupported", values |-> <<>>],
      [kind |-> "reject", values |-> <<>>],
      [kind |-> "values", values |-> [r \in 1..n |-> BinaryRow(r)]],
      [kind |-> "values", values |-> [r \in 1..n |-> MultiRow(r)]],
      [kind |-> "values", values |-> [r \in 1..n |-> SingleRow(r)]] }

\* The predictors a frame of n rows may meet.
Predictors(n) ==
    { [predict |-> [kind |-> "reject", values |-> <<>>],
       proba   |-> [kind |-> "unsupported", values |-> <<>>]] }
    \cup
    { [predict |-> [kind |-> "values", values |-> v], proba |-> p] :
      v \in [1..n -> PredValues], p \in ProbaBehaviours(n) }

\* KafkaProducer.__init__ after a successful _setup_producer.
NewKafkaProducer ==
    [producer |-> "Producer", message_count |-> 0, log |-> <<>>, transport |-> "acks"]

\* The same, over a transport of the given behaviour.
KafkaProducerOn(transport) == [NewKafkaProducer EXCEPT !.transport = transport]

\* The loaded models: three classes and the feature lists of PipeSchemas, or
\* the features a, b and a single class, or no classes_ at all.
PipeLoaders ==
    {Loader(f) : f \in PipeSchemas}
    \cup {LoaderWithClasses(<<"a", "b">>, <<"0">>), LoaderWithClasses(<<"a", "b">>, <<>>)}

InitPipe ==
    /\ pc = "loaded"
    /\ df \in PipeFrames
    /\ model_loader \in PipeLoaders
    /\ args \in [max_records_per_batch : 1..MaxBatch, prediction_threshold : {5}]
    /\ processed = Unused
    /\ predictions = Unused
    /\ kafka = [kp |-> NewKafkaProducer, fate |-> <<>>, results |-> <<>>, batches |-> <<>>]
    /\ env = Unused /\ world = Unused /\ run = Unused

\* predictions = generate_predictions(processed_data, model_loader, args)
GeneratePredictions ==
    /\ pc = "preprocessed"
    /\ \E predictor \in Predictors(NRows(processed)) :
         LET out == generate_predictions(processed, model_loader, args, predictor)
         IN  /\ predictions' = out.results
             /\ world' = [predictor |-> predictor]
             /\ pc' = IF out.error = "none" THEN "predicted" ELSE "failed"
    /\ UNCHANGED <<env, run, model_loader, args, df, processed, kafka>>

\* The fates of the records of a frame: one per row; the fate of a row whose
\* message is not built is never looked at, and is left "ok".
FatesOf(d) ==
    { f \in [1..NRows(d) -> Fates] :
        \A r \in 1..NRows(d) : BuildFails(d.rows[r]) => f[r] = "ok" }

\* kafka_results = batch_process_and_send_to_kafka(predictions, kafka_producer, args)
BatchProcessAndSend ==
    /\ pc = "predicted"
    /\ \E fate \in FatesOf(predictions) :
         LET out == batch_process_and_send_to_kafka(predictions, kafka.kp, args, fate)
         IN  kafka' = [kp |-> out.kp, fate |-> fate, results |-> out.results,
                       batches |-> out.batches]
    /\ pc' = "published"
    /\ UNCHANGED <<env, world, run, model_loader, args, df, processed, predictions>>

NextPipe == Preprocess \/ GeneratePredictions \/ BatchProcessAndSend

SpecPipe == InitPipe /\ [][NextPipe]_vars

\* C8: for every frame D and every known list F of expected features,
\* preprocess_data returns a frame whose columns are exactly F in F's order, with
\* one row per row of D; a column of D that is not in F is absent, a column of F
\* that D lacks holds 0 in every row, and a column of F that D has keeps each of
\* its non-missing cells.
C8_AlignedToExpectedFeatures ==
    (pc = "preprocessed" /\ get_expected_features(model_loader) # NoFeatures) =>
        LET F == get_expected_features(model_loader)
        IN  /\ processed.columns = F
            /\ NRows(processed) = NRows(df)
            /\ \A i \in 1..NRows(df) :
                /\ DOMAIN processed.rows[i] = Range(F)
                /\ \A c \in Range(F) :
                    /\ c \notin ColumnSet(df) => processed.rows[i][c] = 0
                    /\ (c \in ColumnSet(df) /\ df.rows[i][c] # NaN)
                          => processed.rows[i][c] = df.rows[i][c]

\* C8's case: preprocessing has run on a frame that lacks expected features,
\* has a data column that is not expected, and shares a column holding a value.
C8_Witness ==
    /\ pc = "preprocessed"
    /\ get_expected_features(model_loader) = <<"a", "c", "b">>
    /\ "x" \in ColumnSet(df)
    /\ "b" \in ColumnSet(df)
    /\ NRows(df) >= 2
    /\ \E i \in 1..NRows(df) : df.rows[i]["b"] = 2
    /\ \E i \in 1..NRows(df) : df.rows[i]["b"] = NaN

\* C9: for every frame D and every known list of expected features, the frame
\* preprocess_data returns has no missing cell in a numeric column, whatever
\* the pattern of missing cells in the column was.
C9_NoMissingNumeric ==
    (pc = "preprocessed" /\ get_expected_features(model_loader) # NoFeatures) =>
        \A i \in 1..NRows(processed) : \A c \in ColumnSet(processed) :
            processed.dtypes[c] = "num" => processed.rows[i][c] # NaN

(***************************************************************************)
(* main() of score_to_kafka.py, one run of the process.  env is os.environ *)
(* (a variable is "<unset>", "" or "set"); world says how the registry,    *)
(* the secret store, the broker client, the object storage, the predictor  *)
(* and the output directory behave in this run.                            *)
(***************************************************************************)

None == "<None>"

EnvNames ==
    {"MLFLOW_TRACKING_URI", "MLFLOW_MODEL_URI", "INPUT_S3_PREFIX", "KAFKA_BOOTSTRAP",
     "KAFKA_TOPIC", "KAFKA_SECRET_ARN"}

\* os.environ.get(name, default)
Getenv(e, name, default) == IF e[name] = "<unset>" THEN default ELSE e[name]

\* Lines 35-40: the module-level settings.
Settings(e) ==
    [MLFLOW_TRACKING_URI |-> Getenv(e, "MLFLOW_TRACKING_URI", None),
     MLFLOW_MODEL_URI    |-> Getenv(e, "MLFLOW_MODEL_URI", "models:/poem-model/Production"),
     INPUT_S3_PREFIX     |-> Getenv(e, "INPUT_S3_PREFIX", None),
     KAFKA_BOOTSTRAP     |-> Getenv(e, "KAFKA_BOOTSTRAP", None),
     KAFKA_TOPIC         |-> Getenv(e, "KAFKA_TOPIC", None),
     KAFKA_SECRET_ARN    |-> Getenv(e, "KAFKA_SECRET_ARN", None)]

\* `not value`
Falsy(value) == value \in {None, ""}

\* Mutant of RequiredVars: the topic is not checked.
RequiredVarsWithoutTopic == {"MLFLOW_TRACKING_URI", "INPUT_S3_PREFIX", "KAFKA_BOOTSTRAP"}

\* The keys of validate_environment's required_vars.
RequiredVars == {"MLFLOW_TRACKING_URI", "INPUT_S3_PREFIX", "KAFKA_BOOTSTRAP", "KAFKA_TOPIC"}

\* validate_environment: the missing variables; it raises ValueError if any.
missing_vars(settings) == {var \in RequiredVars : Falsy(settings[var])}

\* MLflowModelLoader.__init__(self, model_name, model_stage="Production",
\* model_version=None): its parameters, and those without a default.
LoaderInitParameters == {"model_name", "model_stage", "model_version"}

LoaderInitRequired == {"model_name"}

\* The keyword arguments of main's call MLflowModelLoader(tracking_uri=...,
\* model_uri=...).
MainLoaderKeywords == {"tracking_uri", "model_uri"}

\* Python's argument binding: a keyword that is no parameter, or a parameter
\* without default that no argument gives, raises TypeError.
BindRaisesTypeError(parameters, required, keywords) ==
    \/ ~(keywords \subseteq parameters)
    \/ ~(required \subseteq keywords)

\* The outcome of a run: the calls main entered, in order, the exit code of
\* the process and the exception main caught.
Exited(steps, exit_code, error, at, messages) ==
    [steps |-> steps, exit_code |-> exit_code, error |-> error, at |-> at,
     produced |-> messages]

\* The frame, the model and the arguments of a run whose storage holds data.
MainFrame ==
    Frame(<<"a", "b">>, [i \in 1..2 |-> [c \in {"a", "b"} |-> 0]], [i \in 1..2 |-> i])

MainArgs == [max_records_per_batch |-> 10000, prediction_threshold |-> 5]

\* The predictor of a run, on the frame d: it scores every row or rejects the frame.
MainPredictorOn(d, w) ==
    [predict |-> [kind |-> IF w.predictor = "ok" THEN "values" ELSE "reject",
                  values |-> [r \in 1..NRows(d) |-> [kind |-> "int", v |-> 1]]],
     proba   |-> [kind |-> "values", values |-> [r \in 1..NRows(d) |-> BinaryRow(r)]]]

MainPredictor(w) == MainPredictorOn(MainFrame, w)

\* save_audit_output(predictions, kafka_results, OUTPUT_DIR, args) raises: what
\* mkdir, json.dump or to_parquet raise (audit = "error") is caught and logged
\* by lines 379-380, so the call returns in either case.
save_audit_output_raises(audit) ==
    CASE audit = "error" -> FALSE
      [] OTHER           -> FALSE

\* Lines 425-444: the run from preprocess_data on, for the input frame d.
MainScoreOn(d, w, steps) ==
    LET loader == Loader(<<"a", "b">>)
        s1 == steps \o <<"preprocess_data", "generate_predictions">>
        processed_data == preprocess_data(d, get_expected_features(loader))
        scored == generate_predictions(processed_data, loader, MainArgs, MainPredictorOn(d, w))
        sent == batch_process_and_send_to_kafka(
                    scored.results, NewKafkaProducer, MainArgs,
                    [r \in 1..NRows(d) |-> "ok"])
    IN  IF scored.error # "none"
        THEN Exited(s1, 1, scored.error, "generate_predictions", 0)
        ELSE IF save_audit_output_raises(w.audit)
        THEN Exited(s1 \o <<"batch_process_and_send_to_kafka", "save_audit_output">>,
                    1, "Exception", "save_audit_output", Len(ProducedRows(sent.kp)))
        ELSE Exited(s1 \o <<"batch_process_and_send_to_kafka", "save_audit_output", "close">>,
                    0, "none", "none", Len(ProducedRows(sent.kp)))

MainScore(w, steps) == MainScoreOn(MainFrame, w, steps)

\* Lines 400-422: the run from load_model to the loaded input.
MainBody(settings, w, steps) ==
    LET s1 == Append(steps, "load_model")
        s2 == IF Falsy(settings.KAFKA_SECRET_ARN) THEN s1
              ELSE Append(s1, "get_kafka_credentials")
        s3 == Append(s2, "KafkaProducer")
        s4 == Append(s3, "get_s3_input_data_for_window")
    IN  IF w.registry # "ok" THEN Exited(s1, 1, "Exception", "load_model", 0)
        ELSE IF w.producer # "ok" THEN Exited(s3, 1, "Exception", "KafkaProducer", 0)
        ELSE IF w.storage = "error"
        THEN Exited(s4, 1, "Exception", "get_s3_input_data_for_window", 0)
        ELSE IF w.storage = "empty" THEN Exited(s4, 0, "none", "none", 0)
        ELSE MainScore(w, s4)

\* main(): lines 386-448.
RunMain(e, w) ==
    LET settings == Settings(e)
    IN  IF missing_vars(settings) # {}
        THEN Exited(<<>>, 1, "ValueError", "validate_environment", 0)
        ELSE IF BindRaisesTypeError(LoaderInitParameters, LoaderInitRequired,
                                    MainLoaderKeywords)
        THEN Exited(<<"MLflowModelLoader">>, 1, "TypeError", "MLflowModelLoader", 0)
        ELSE MainBody(settings, w, <<"MLflowModelLoader">>)

Worlds ==
    [registry : {"ok", "error"}, secret : {"ok", "error"}, producer : {"ok", "error"},
     storage : {"data", "empty", "error"}, predictor : {"ok", "reject"},
     audit : {"ok", "error"}]

Init ==
    /\ pc = "start"
    /\ env \in [EnvNames -> {"<unset>", "", "set"}]
    /\ world \in Worlds
    /\ run = Exited(<<>>, 0, "none", "none", 0)
    /\ model_loader = Unused /\ args = Unused /\ df = Unused
    /\ processed = Unused /\ predictions = Unused /\ kafka = Unused

\* The process runs main() to its end.
Main ==
    /\ pc = "start"
    /\ run' = RunMain(env, world)
    /\ pc' = "exited"
    /\ UNCHANGED <<env, world, model_loader, args, df, processed, predictions, kafka>>

Next == Main

Spec == Init /\ [][Next]_vars

\* Every setting the run needs is present.
AllSettingsPresent ==
    \A name \in EnvNames \ {"KAFKA_SECRET_ARN"} : env[name] = "set"

\* Every collaborator call of the run succeeds.
AllCollaboratorsSucceed ==
    /\ world.registry = "ok" /\ world.secret = "ok" /\ world.producer = "ok"
    /\ world.storage # "error" /\ world.predictor = "ok" /\ world.audit = "ok"

\* The steps the spec's control flow names, among those the run entered.
CoreSteps(steps) ==
    SelectSeq(steps, LAMBDA x : x \in {"load_model", "get_s3_input_data_for_window",
                                       "preprocess_data", "generate_predictions",
                                       "batch_process_and_send_to_kafka",
                                       "save_audit_output"})

\* C1: in a run where every required setting is present, every collaborator
\* call succeeds and the loader finds data, the steps model load, input load,
\* preprocessing, prediction, batch publishing and audit writing execute once
\* each in that order, and the process exits with code 0.
C1_HappyPathRunsEveryStep ==
    (pc = "exited" /\ AllSettingsPresent /\ AllCollaboratorsSucceed
        /\ world.storage = "data") =>
        /\ run.exit_code = 0
        /\ CoreSteps(run.steps) =
              <<"load_model", "get_s3_input_data_for_window", "preprocess_data",
                "generate_predictions", "batch_process_and_send_to_kafka",
                "save_audit_output">>

\* Nothing of the run's work was entered: no model load, no secret fetch, no
\* producer, no storage listing, no publish.
NoWorkDone == run.steps = <<>> /\ run.produced = 0

C6_OnlyFourErrorKindsAbort ==
    pc = "exited" =>
        /\ run.exit_code # 0 =>
              run.at \in {"validate_environment", "load_model",
                          "get_s3_input_data_for_window", "generate_predictions"}
        /\ (/\ AllSettingsPresent /\ world.registry = "ok" /\ world.storage # "error"
            /\ world.predictor = "ok" /\ world.producer = "error") => run.exit_code = 0

\* C7: when the storage holds no object in the window with the expected
\* extension, so that the loader returns an empty frame, the run ends with exit
\* status 0, neither preprocessing nor prediction is executed and no message is
\* handed to the transport.
C7_EmptyInputEndsInSuccess ==
    (pc = "exited" /\ AllSettingsPresent /\ world.registry = "ok"
        /\ world.producer = "ok" /\ world.storage = "empty") =>
        /\ run.exit_code = 0
        /\ "preprocess_data" \notin Range(run.steps)
        /\ "generate_predictions" \notin Range(run.steps)
        /\ run.produced = 0

\* The least q with q * b >= n.
Ceil(n, b) == CHOOSE q \in 0..n : q * b >= n /\ (q = 0 \/ (q - 1) * b < n)

RECURSIVE Flatten(_)
Flatten(ss) == IF ss = <<>> THEN <<>> ELSE Head(ss) \o Flatten(Tail(ss))

\* Every prediction is a number and the transport takes every message.
AllGoesWell ==
    /\ \A r \in 1..NRows(predictions) : predictions.rows[r]["prediction"].kind # "str"
    /\ \A r \in 1..NRows(predictions) : kafka.fate[r] = "ok"

\* C2: for a frame preprocess_data aligned to known expected features and
\* generate_predictions scored, with every value serializable and a transport
\* that accepts every produce call, batch_process_and_send_to_kafka hands every
\* record to the transport exactly once: successful_sends = N, failed_sends = 0.
C2_EveryRecordHandedOnce ==
    (pc = "published" /\ get_expected_features(model_loader) # NoFeatures /\ AllGoesWell) =>
        /\ ProducedRows(kafka.kp) = [r \in 1..NRows(predictions) |-> r]
        /\ kafka.results.successful_sends = NRows(predictions)
        /\ kafka.results.failed_sends = 0

\* C3: batch_process_and_send_to_kafka forms exactly ceil(N/B) batches, each of
\* at least one and at most B records, whose concatenation in batch order is
\* the original sequence of records; batches_processed is that number.
C3_Batching ==
    pc = "published" =>
        LET N == NRows(predictions)
            B == args.max_records_per_batch
        IN  /\ Len(kafka.batches) = Ceil(N, B)
            /\ \A k \in 1..Len(kafka.batches) :
                    Len(kafka.batches[k]) >= 1 /\ Len(kafka.batches[k]) <= B
            /\ Flatten(kafka.batches) = [r \in 1..N |-> r]
            /\ kafka.results.batches_processed = Len(kafka.batches)

\* C3's case: the records were published in two batches, a full one and a
\* shorter last one.
C3_Witness ==
    /\ pc = "published"
    /\ Len(kafka.batches) = 2
    /\ Len(kafka.batches[1]) = args.max_records_per_batch
    /\ Len(kafka.batches[2]) < args.max_records_per_batch
    /\ kafka.results.batches_processed = 2

\* C4: a record whose message cannot be built or serialized is not sent and
\* adds exactly one to failed_sends, and every other record is sent: with k such
\* records out of N and a transport that accepts the others,
\* successful_sends = N - k, failed_sends = k and success_rate = (N - k) / N.
C4_FailedRecordCounted ==
    (pc = "published" /\ \A r \in 1..NRows(predictions) : kafka.fate[r] # "produce_error") =>
        LET N == NRows(predictions)
            bad == {r \in 1..N : \/ BuildFails(predictions.rows[r])
                                 \/ kafka.fate[r] = "serialize_error"}
            k == Cardinality(bad)
        IN  /\ Range(ProducedRows(kafka.kp)) = (1..N) \ bad
            /\ kafka.results.successful_sends = N - k
            /\ kafka.results.failed_sends = k
            /\ N > 0 => kafka.results.success_rate[1] * N
                            = (N - k) * kafka.results.success_rate[2]

\* C10: source_file and ingestion_time are no columns of the frame handed to
\* predict and predict_proba, and the message published for a row loaded from
\* the object with key k carries audit.source_file = k and audit.ingestion_time
\* = the load time of the row.
C10_ProvenanceKeptAside ==
    (pc = "published" /\ AllGoesWell) =>
        \A r \in 1..NRows(df) :
            /\ DOMAIN processed.rows[r] \cap Range(ProvenanceColumns) = {}
            /\ \E m \in Range(ProducedMessages(kafka.kp)) :
                  /\ m.row_name = r
                  /\ m.audit.source_file = df.rows[r]["source_file"]
                  /\ m.audit.ingestion_time = df.rows[r]["ingestion_time"]

\* The columns generate_predictions adds to the frame it scores.
BookkeepingColumns ==
    {"prediction", "prediction_timestamp", "model_name", "model_version", "model_stage",
     "prediction_probability", "prediction_confidence", "high_confidence",
     "above_threshold", "prob_0", "prob_1", "prob_2"}

\* C11: in every message batch_process_and_send_to_kafka builds, the features
\* field holds exactly the model's feature columns of the row, with the row's
\* values: no provenance column (source_file, ingestion_time) and no
\* bookkeeping column (prediction, prediction_timestamp, model_name,
\* model_version, model_stage, prediction_probability, prediction_confidence,
\* high_confidence, above_threshold, prob_<label>).
C11_FeaturesOnly ==
    pc = "published" =>
        \A m \in Range(ProducedMessages(kafka.kp)) :
            /\ DOMAIN m.features \cap (Range(ProvenanceColumns) \cup BookkeepingColumns) = {}
            /\ DOMAIN m.features = ColumnSet(processed) \ Range(ProvenanceColumns)
            /\ \A c \in ColumnSet(processed) \ Range(ProvenanceColumns) :
                    m.features[c] = processed.rows[m.row_name][c]

(***************************************************************************)
(* get_s3_input_data_for_window (score_to_kafka.py) and what main does     *)
(* with its result (lines 413-448), for a run that has a loaded model and  *)
(* an open producer.  The bucket is a sequence of objects in key order,    *)
(* the order in which list_objects_v2 lists them:                          *)
(*   [key, under_prefix, ext, last_modified, rows, fate]                   *)
(* key is the code of the object's key, ext what follows the last dot of   *)
(* the key, rows the number of rows the file holds, and fate says whether  *)
(* download_file and the reader succeed on it.                             *)
(***************************************************************************)

\* Most objects in the bucket.
MaxObjects == 3

\* Most keys one list_objects_v2 response carries (1000 at the service,
\* scaled down).
PageSize == 2

ObjectFates == {"ok", "download_error", "parse_error"}

\* Lines 127-129: the object is in the time window and has the format's extension.
InWindowWithFormat(o, start_time, end_time, input_format) ==
    /\ start_time <= o.last_modified
    /\ o.last_modified <= end_time
    /\ o.ext = input_format

\* The objects a bucket may hold, but for their keys.  The window of the runs
\* is [6, 10]; the fate and the size of an object that is never downloaded are
\* never looked at, and are left "ok" and 1.
ObjectKinds ==
    { o \in [under_prefix : BOOLEAN, ext : {"parquet", "csv"}, last_modified : {5, 6, 10, 11},
             rows : {1, 2}, fate : ObjectFates] :
        /\ ~o.under_prefix => (o.ext = "parquet" /\ o.last_modified = 6)
        /\ ~(o.under_prefix /\ InWindowWithFormat(o, 6, 10, "parquet"))
              => (o.rows = 1 /\ o.fate = "ok") }

\* The bucket holding objects of the given kinds: the key of the i-th is i.
Bucket(kinds) == [i \in DOMAIN kinds |-> [key |-> i] @@ kinds[i]]

\* pd.DataFrame()
EmptyFrame == [columns |-> <<>>, dtypes |-> <<>>, rows |-> <<>>]

\* s3_client.list_objects_v2(Bucket=..., Prefix=...): one response, holding the
\* first keys under the prefix, at most a page of them.  An empty Contents
\* stands for a response without the 'Contents' entry.
list_objects_v2(store) ==
    LET under == SelectSeq(store, LAMBDA o : o.under_prefix)
    IN  [Contents    |-> SubSeq(under, 1, Min(Len(under), PageSize)),
         IsTruncated |-> Len(under) > PageSize]

\* Lines 123-130: the listed objects that are kept, in listing order.
relevant_objects(contents, start_time, end_time, input_format) ==
    SelectSeq(contents, LAMBDA o : InWindowWithFormat(o, start_time, end_time, input_format))

\* Lines 148-157: the frame read from one object, tagged with its key.
ObjectFrame(o) ==
    Frame(<<"a", "b">>, [i \in 1..o.rows |-> [c \in {"a", "b"} |-> 0]],
          [i \in 1..o.rows |-> o.key])

\* Mutant of DownloadLoop: an object that cannot be downloaded or read is skipped.
RECURSIVE DownloadLoopSkipFailed(_, _, _)
DownloadLoopSkipFailed(relevant, i, dataframes) ==
    IF i > Len(relevant) THEN [raised |-> FALSE, dataframes |-> dataframes]
    ELSE DownloadLoopSkipFailed(relevant, i + 1,
            IF relevant[i].fate # "ok" THEN dataframes
            ELSE Append(dataframes, ObjectFrame(relevant[i])))

\* Lines 139-162: the objects i.. of the list, one after the other; the
\* exception of download_file or of the reader leaves the loop.
RECURSIVE DownloadLoop(_, _, _)
DownloadLoop(relevant, i, dataframes) ==
    IF i > Len(relevant) THEN [raised |-> FALSE, dataframes |-> dataframes]
    ELSE IF relevant[i].fate # "ok" THEN [raised |-> TRUE, dataframes |-> dataframes]
    ELSE DownloadLoop(relevant, i + 1, Append(dataframes, ObjectFrame(relevant[i])))

\* pd.concat(dataframes, ignore_index=True) if dataframes else pd.DataFrame()
Concat(dataframes) ==
    IF dataframes = <<>> THEN EmptyFrame
    ELSE [dataframes[1] EXCEPT
            !.rows = Flatten([k \in 1..Len(dataframes) |-> dataframes[k].rows])]

\* get_s3_input_data_for_window(s3_prefix, window_hours, input_format), in the
\* world w: [raised, df].
get_s3_input_data_for_window(w) ==
    LET end_time == w.end_time
        start_time == end_time - w.run_window_hours
        response == list_objects_v2(w.store)
        relevant == relevant_objects(response.Contents, start_time, end_time, w.input_format)
        loaded == DownloadLoop(relevant, 1, <<>>)
    IN  IF response.Contents = <<>> THEN [raised |-> FALSE, df |-> EmptyFrame]
        ELSE IF relevant = <<>> THEN [raised |-> FALSE, df |-> EmptyFrame]
        ELSE IF loaded.raised THEN [raised |-> TRUE, df |-> EmptyFrame]
        ELSE [raised |-> FALSE, df |-> Concat(loaded.dataframes)]

InitLoad ==
    /\ pc = "start"
    /\ \E n \in 0..MaxObjects : \E kinds \in [1..n -> ObjectKinds] :
          world = [store |-> Bucket(kinds), end_time |-> 10, run_window_hours |-> 4,
                   input_format |-> "parquet", predictor |-> "ok", audit |-> "ok"]
    /\ run = Exited(<<>>, 0, "none", "none", 0)
    /\ df = Unused
    /\ env = Unused /\ model_loader = Unused /\ args = Unused
    /\ processed = Unused /\ predictions = Unused /\ kafka = Unused

\* input_data = get_s3_input_data_for_window(...): lines 414-418.
LoadInput ==
    /\ pc = "start"
    /\ LET out == get_s3_input_data_for_window(world)
       IN  /\ pc' = IF out.raised THEN "input_failed" ELSE "input_loaded"
           /\ df' = IF out.raised THEN df ELSE out.df
    /\ run' = [run EXCEPT !.steps = Append(@, "get_s3_input_data_for_window")]
    /\ UNCHANGED <<env, world, model_loader, args, processed, predictions, kafka>>

\* Lines 420-448: the exception reaches main's handler, which exits with 1; an
\* empty frame makes main return; any other frame is scored and published.
FinishRun ==
    /\ pc \in {"input_failed", "input_loaded"}
    /\ run' = IF pc = "input_failed"
              THEN Exited(run.steps, 1, "Exception", "get_s3_input_data_for_window", 0)
              ELSE IF NRows(df) = 0 THEN Exited(run.steps, 0, "none", "none", 0)
              ELSE MainScoreOn(df, world, run.steps)
    /\ pc' = "exited"
    /\ UNCHANGED <<env, world, model_loader, args, df, processed, predictions, kafka>>

NextLoad == LoadInput \/ FinishRun

SpecLoad == InitLoad /\ [][NextLoad]_vars

\* The objects of the bucket that are under the prefix, were last modified in
\* [now - window, now] and whose key ends with the format's extension.
MatchingObjects(w) ==
    SelectSeq(w.store, LAMBDA o :
        /\ o.under_prefix
        /\ w.end_time - w.run_window_hours <= o.last_modified
        /\ o.last_modified <= w.end_time
        /\ o.ext = w.input_format)

\* The key of the object each row must come from, when every object of objs
\* contributes all its rows.
KeysOfRows(objs) == Flatten([k \in 1..Len(objs) |-> [j \in 1..objs[k].rows |-> objs[k].key]])

\* C12: the frame get_s3_input_data_for_window returns holds the rows of
\* exactly the objects under the prefix that were last modified in
\* [now - window, now] and whose key ends with the format's extension: each
\* such object contributes all its rows, no other object contributes a row,
\* and each row's source_file is the key of its object.
C12_ExactlyTheMatchingObjects ==
    pc = "input_loaded" =>
        [r \in 1..NRows(df) |-> df.rows[r]["source_file"]]
            = KeysOfRows(MatchingObjects(world))

\* The matching objects the loader gets to download.
Attempted(w) ==
    relevant_objects(list_objects_v2(w.store).Contents,
                     w.end_time - w.run_window_hours, w.end_time, w.input_format)

\* C13: if the download or the parse of one matching object fails, then
\* however many earlier objects were loaded the loader returns no frame, the
\* run ends with a non-zero exit code, no prediction is computed and no
\* message is published.
C13_LoadFailureIsFatal ==
    (pc # "start" /\ \E i \in DOMAIN Attempted(world) : Attempted(world)[i].fate # "ok") =>
        /\ pc \in {"input_failed", "exited"}
        /\ pc = "exited" =>
            /\ run.exit_code # 0
            /\ run.at = "get_s3_input_data_for_window"
            /\ "generate_predictions" \notin Range(run.steps)
            /\ "batch_process_and_send_to_kafka" \notin Range(run.steps)
            /\ run.produced = 0

\* C13's case: the run has ended after the first matching object was loaded
\* and the second could not be read.
C13_Witness ==
    /\ pc = "exited"
    /\ Len(Attempted(world)) >= 2
    /\ Attempted(world)[1].fate = "ok"
    /\ Attempted(world)[2].fate = "parse_error"
    /\ run.exit_code = 1

\* generate_predictions has returned a frame of at least one row (main hands it
\* no empty frame: lines 420-422).
Scored == pc \in {"predicted", "published"} /\ NRows(predictions) >= 1

\* The probabilities the predictor returned to generate_predictions: NoProba
\* when it has no predict_proba or its predict_proba failed.
ReturnedProba ==
    IF world.predictor.proba.kind = "values" THEN world.predictor.proba.values ELSE NoProba

\* C14: when the predictor returns probabilities with exactly two columns,
\* generate_predictions sets for every row prediction_probability = the
\* column-1 probability, prediction_confidence = the greater of the two,
\* high_confidence = (prediction_confidence > 0.8) and above_threshold =
\* (prediction_probability > prediction_threshold); [0.9, 0.1] and [0.3, 0.7]
\* with threshold 0.5 give (0.1, 0.9, true, false) and (0.7, 0.7, false, true).
C14_BinaryProbabilities ==
    (Scored /\ ReturnedProba # NoProba /\ Len(ReturnedProba[1]) = 2) =>
        \A r \in 1..NRows(predictions) :
            LET p == ReturnedProba[r]
                row == predictions.rows[r]
                confidence == IF p[1] >= p[2] THEN p[1] ELSE p[2]
                got == <<row["prediction_probability"], row["prediction_confidence"],
                         row["high_confidence"], row["above_threshold"]>>
            IN  /\ got = <<p[2], confidence, confidence > 8, p[2] > args.prediction_threshold>>
                /\ (p = <<9, 1>> /\ args.prediction_threshold = 5) => got = <<1, 9, TRUE, FALSE>>
                /\ (p = <<3, 7>> /\ args.prediction_threshold = 5) => got = <<7, 7, FALSE, TRUE>>

\* C14's case: a frame of two rows was scored by a predictor that returned
\* [0.9, 0.1] for the first and [0.3, 0.7] for the second.
C14_Witness ==
    /\ pc = "predicted"
    /\ NRows(predictions) = 2
    /\ ReturnedProba = << <<9, 1>>, <<3, 7>> >>
    /\ predictions.rows[2]["above_threshold"]

\* The columns that hold a probability, a confidence or a flag.
ProbabilityColumns ==
    {"prediction_probability", "prediction_confidence", "high_confidence",
     "above_threshold", "prob_0", "prob_1", "prob_2"}

\* The frame carries the multiclass treatment of the probabilities proba:
\* prediction_confidence = the greatest probability of the row, one column
\* prob_<label> per class label with that class's probability, and no
\* prediction_probability, above_threshold or high_confidence column.
MulticlassTreated(d, proba, class_names) ==
    /\ ColumnSet(d) \cap ProbabilityColumns =
          {"prediction_confidence"} \cup {ProbColumn(class_names[i]) : i \in DOMAIN class_names}
    /\ \A r \in 1..NRows(d) :
          /\ d.rows[r]["prediction_confidence"] \in Range(proba[r])
          /\ \A x \in Range(proba[r]) : x <= d.rows[r]["prediction_confidence"]
          /\ \A i \in DOMAIN class_names :
                d.rows[r][ProbColumn(class_names[i])] = proba[r][i]

HasSubstring(s, t) == \E i \in DOMAIN s : s[i] = t

BootstrapStrings ==
    { <<"localhost", ":9092">>,
      <<"b-1.scoring.kafka.us-east-1.", "amazonaws.com", ":9098">>,
      <<"broker.example.com", ":9093">>,
      <<"b-1.", "amazonaws.com", ":9098,b-2.", "amazonaws.com", ":9098">> }

CredentialKeys == {"username", "password", "ssl_ca_location"}

\* The dictionaries over the given keys: a username and a password are empty
\* (the resolver's default for a secret without the entry) or not.
CredentialDicts(keys) ==
    { d \in [keys -> {"", "secret", "/etc/ssl/certs/ca-certificates.crt"}] :
        \A k \in keys : (k = "ssl_ca_location") <=> (d[k] = "/etc/ssl/certs/ca-certificates.crt") }

\* self.credentials = credentials or {}
CredentialsOrEmpty(credentials) == IF credentials.none THEN <<>> ELSE credentials.dict

\* Lines 71-82: the base configuration.
BaseConfig(bootstrap_servers, timeout) ==
    ("bootstrap.servers" :> bootstrap_servers) @@ ("acks" :> "all") @@ ("retries" :> 3)
    @@ ("retry.backoff.ms" :> 1000) @@ ("request.timeout.ms" :> timeout * 1000)
    @@ ("message.timeout.ms" :> timeout * 1000) @@ ("linger.ms" :> 10)
    @@ ("compression.type" :> "gzip")

\* Lines 101-107.
IamConfig ==
    ("security.protocol" :> "SASL_SSL") @@ ("sasl.mechanism" :> "AWS_MSK_IAM")
    @@ ("ssl.ca.location" :> "/etc/ssl/certs/ca-certificates.crt")

\* Lines 87-95, for credentials that hold a username and a password.
PlainConfig(credentials) ==
    ("security.protocol" :> "SASL_SSL") @@ ("sasl.mechanism" :> "PLAIN")
    @@ ("sasl.username" :> credentials["username"])
    @@ ("sasl.password" :> credentials["password"])
    @@ (IF "ssl_ca_location" \in DOMAIN credentials
        THEN ("ssl.ca.location" :> credentials["ssl_ca_location"]) ELSE <<>>)

\* Lines 85-114: the authentication entries of the configuration;
\* self.credentials['password'] raises KeyError for credentials without one.
AuthConfig(bootstrap_servers, credentials) ==
    IF DOMAIN credentials # {} /\ "username" \in DOMAIN credentials
    THEN IF "password" \notin DOMAIN credentials
         THEN [raised |-> TRUE, config |-> <<>>]
         ELSE [raised |-> FALSE, config |-> PlainConfig(credentials)]
    ELSE IF HasSubstring(bootstrap_servers, "amazonaws.com")
    THEN [raised |-> FALSE, config |-> IamConfig]
    ELSE [raised |-> FALSE, config |-> ("security.protocol" :> "PLAINTEXT")]

\* KafkaProducer(bootstrap_servers, topic, timeout, credentials): the object
\* kp, the configuration built, and whether the constructor raised
\* (_setup_producer re-raises what the lines 70-119 raise).
NewKafkaProducerWith(bootstrap_servers, timeout, credentials, producer_fate) ==
    LET auth == AuthConfig(bootstrap_servers, CredentialsOrEmpty(credentials))
        config == auth.config @@ BaseConfig(bootstrap_servers, timeout)
        raised == auth.raised \/ producer_fate # "ok"
    IN  [kp     |-> [producer |-> IF raised THEN "None" ELSE "Producer",
                     message_count |-> 0, log |-> <<>>, transport |-> "acks"],
         config |-> config,
         raised |-> raised]

InitAuth ==
    /\ pc = "start"
    /\ \E bootstrap \in BootstrapStrings, fate \in {"ok", "error"} :
          \/ world = [bootstrap_servers |-> bootstrap, producer_fate |-> fate,
                      credentials |-> [none |-> TRUE, dict |-> <<>>]]
          \/ \E keys \in SUBSET CredentialKeys : \E d \in CredentialDicts(keys) :
                world = [bootstrap_servers |-> bootstrap, producer_fate |-> fate,
                         credentials |-> [none |-> FALSE, dict |-> d]]
    /\ kafka = Unused
    /\ env = Unused /\ run = Unused /\ model_loader = Unused /\ args = Unused
    /\ df = Unused /\ processed = Unused /\ predictions = Unused

\* kafka_producer = KafkaProducer(...): lines 406-411 of main.
SetupProducer ==
    /\ pc = "start"
    /\ kafka' = NewKafkaProducerWith(world.bootstrap_servers, 60, world.credentials,
                                     world.producer_fate)
    /\ pc' = IF kafka'.raised THEN "setup_failed" ELSE "constructed"
    /\ UNCHANGED <<env, world, run, model_loader, args, df, processed, predictions>>

NextAuth == SetupProducer

SpecAuth == InitAuth /\ [][NextAuth]_vars

\* The authentication mode of a configuration: its security protocol and SASL
\* mechanism; <<"none", "none">> for a configuration without a protocol.
AuthMode(config) ==
    IF "security.protocol" \notin DOMAIN config THEN <<"none", "none">>
    ELSE <<config["security.protocol"],
           IF "sasl.mechanism" \in DOMAIN config THEN config["sasl.mechanism"] ELSE "none">>

\* The decision order of the claim, for `holds` = the credentials count as
\* holding a username and password.
ModeByOrder(holds, bootstrap_servers) ==
    IF holds THEN <<"SASL_SSL", "PLAIN">>
    ELSE IF HasSubstring(bootstrap_servers, "amazonaws.com") THEN <<"SASL_SSL", "AWS_MSK_IAM">>
    ELSE <<"PLAINTEXT", "none">>

\* The credentials hold an explicit username and password: both entries are
\* there and neither is empty.
ExplicitUsernamePassword(credentials) ==
    LET d == CredentialsOrEmpty(credentials)
    IN  /\ {"username", "password"} \subseteq DOMAIN d
        /\ d["username"] # "" /\ d["password"] # ""

\* C16 as stated: credentials holding an explicit username/password select
\* SASL over TLS with PLAIN; otherwise a bootstrap string with the managed
\* broker's pattern selects SASL over TLS with the IAM mechanism; otherwise
\* PLAINTEXT; exactly one mode is selected for every combination of bootstrap
\* string and credentials.
C16_AuthModeByExplicitCredentials ==
    pc # "start" =>
        AuthMode(kafka.config)
            = ModeByOrder(ExplicitUsernamePassword(world.credentials), world.bootstrap_servers)

(***************************************************************************)
(* The publisher on a transport that may fail: send_batch and              *)
(* batch_process_and_send_to_kafka on a scored frame whose rows carry      *)
(* their provenance, over each behaviour of Producer.flush, and with       *)
(* messages whose delivery the broker refuses after produce took them      *)
(* ("delivery_error": the delivery callback is called with an error).      *)
(***************************************************************************)

TransportFates == Fates \cup {"delivery_error"}

\* KafkaProducer._delivery_callback(err, msg): the report is logged.
delivery_callback(kp, err) == kp

\* The transport calls the delivery callback once for every message produce
\* took, from within poll and flush: reports[k] is the error of the k-th, or
\* None.
RECURSIVE DeliverReports(_, _, _)
DeliverReports(kp, reports, k) ==
    IF k > Len(reports) THEN kp
    ELSE DeliverReports(delivery_callback(kp, reports[k]), reports, k + 1)

\* The reports for the messages of the rows `rows`, given the fate of each row.
ReportsOf(rows, fate) ==
    [k \in DOMAIN rows |-> IF fate[rows[k]] = "delivery_error" THEN "KafkaError" ELSE None]

\* The scored frame of n rows with the features a, b and their provenance,
\* whose predictions are v.
ScoredFrame(n, v) ==
    generate_predictions(
        preprocess_data(Frame(<<"a", "b">>, [i \in 1..n |-> [c \in {"a", "b"} |-> 0]],
                              [i \in 1..n |-> 1]),
                        NoFeatures),
        Loader(NoFeatures), MainArgs,
        [predict |-> [kind |-> "values", values |-> v],
         proba   |-> [kind |-> "unsupported", values |-> <<>>]]).results

\* Each prediction is an integer, or a label that is no number (its message
\* cannot be built).
SendFrames ==
    UNION { { ScoredFrame(n, v) :
                v \in [1..n -> {[kind |-> "int", v |-> 1], [kind |-> "str", v |-> 0]}] } :
            n \in 0..MaxRecords }

InitSend ==
    /\ pc = "scored"
    /\ predictions \in SendFrames
    /\ args \in [max_records_per_batch : 1..MaxBatch, prediction_threshold : {5}]
    /\ \E transport \in Transports :
          kafka = [kp |-> KafkaProducerOn(transport), fate |-> <<>>, results |-> <<>>,
                   batches |-> <<>>, messages |-> <<>>]
    /\ env = Unused /\ world = Unused /\ run = Unused /\ model_loader = Unused
    /\ df = Unused /\ processed = Unused

\* The fates of the records of a frame on such a transport.
TransportFatesOf(d) ==
    { f \in [1..NRows(d) -> TransportFates] :
        \A r \in 1..NRows(d) : BuildFails(d.rows[r]) => f[r] = "ok" }

\* kafka_results = batch_process_and_send_to_kafka(predictions, kafka_producer, args)
Publish ==
    /\ pc = "scored"
    /\ \E fate \in TransportFatesOf(predictions) :
         LET out == batch_process_and_send_to_kafka(predictions, kafka.kp, args, fate)
         IN  kafka' = [kp       |-> DeliverReports(out.kp, ReportsOf(ProducedRows(out.kp), fate), 1),
                       fate     |-> fate,
                       results  |-> out.results,
                       batches  |-> out.batches,
                       messages |-> <<>>]
    /\ pc' = "published"
    /\ UNCHANGED <<env, world, run, model_loader, args, df, processed, predictions>>

\* kafka_producer.send_batch(messages): one call, for the messages of all the
\* rows of the frame; fate is that of each message of the list.
SendBatch ==
    /\ pc = "scored"
    /\ \E fate \in TransportFatesOf(predictions) :
         LET built == BuildLoop(predictions, 1, NRows(predictions), 1,
                                [messages |-> <<>>, names |-> <<>>, error_count |-> 0])
             fates == [k \in 1..Len(built.names) |-> fate[built.names[k]]]
             out == send_batch(kafka.kp, built.messages, fates)
         IN  kafka' = [kp       |-> DeliverReports(out.kp, ReportsOf(ProducedRows(out.kp), fate), 1),
                       fate     |-> fates,
                       results  |-> [success_count |-> out.success_count, raised |-> out.raised],
                       batches  |-> <<>>,
                       messages |-> built.messages]
    /\ pc' = "batch_sent"
    /\ UNCHANGED <<env, world, run, model_loader, args, df, processed, predictions>>

NextSend == Publish \/ SendBatch

SpecSend == InitSend /\ [][NextSend]_vars

\* The positions of the log at which a message was handed to the transport.
ProduceCalls(log) == {q \in DOMAIN log : log[q].op = "produce"}

\* The batch of the message handed over at position q.
BatchAt(log, q) == log[q].value.message.audit.processing_batch

\* The records whose message was built and taken by the transport.
TakenRows ==
    {r \in 1..NRows(predictions) :
        ~BuildFails(predictions.rows[r]) /\ kafka.fate[r] \in {"ok", "delivery_error"}}

\* Whatever the flushes did, the run was not aborted: every batch was formed,
\* every message the transport takes was handed to it, and the outcome came back.
RunWentOn ==
    /\ Range(ProducedRows(kafka.kp)) = TakenRows
    /\ kafka.results.batches_processed = Len(kafka.batches)
    /\ kafka.results.successful_sends = Cardinality(TakenRows)

C18_DeliveryFailureCounted ==
    (pc = "published" /\ \A r \in 1..NRows(predictions) :
                            kafka.fate[r] \in {"ok", "delivery_error"}) =>
        LET N == NRows(predictions)
            failed == {r \in 1..N : \/ BuildFails(predictions.rows[r])
                                    \/ kafka.fate[r] = "delivery_error"}
        IN  /\ kafka.results.failed_sends = Cardinality(failed)
            /\ kafka.results.successful_sends = N - Cardinality(failed)
            /\ N > 0 => kafka.results.success_rate[1] * N
                            = (N - Cardinality(failed)) * kafka.results.success_rate[2]
            /\ Range(ProducedRows(kafka.kp)) = TakenRows

\* C19: send_batch attempts every message of its list, in list order, whether
\* or not an earlier message of the call failed to be serialized or produced,
\* and returns the number of messages handed to the transport in the call,
\* which is between 0 and len(messages).
C19_SendBatchAttemptsAll ==
    pc = "batch_sent" =>
        LET messages == kafka.messages
            handed == {i \in DOMAIN messages : kafka.fate[i] \in {"ok", "delivery_error"}}
            log == kafka.kp.log
            produced == SelectSeq(log, LAMBDA e : e.op = "produce")
        IN  /\ {produced[k].value.batch_index + 1 : k \in DOMAIN produced} = handed
            /\ \A k \in DOMAIN produced :
                  /\ produced[k].value.message = messages[produced[k].value.batch_index + 1]
                  /\ k > 1 => produced[k - 1].value.batch_index < produced[k].value.batch_index
            /\ ~kafka.results.raised
            /\ kafka.results.success_count = Cardinality(handed)
            /\ 0 <= kafka.results.success_count
            /\ kafka.results.success_count <= Len(messages)

\* C19's case: one call in which the first message could not be serialized,
\* the second was refused by produce and the third was handed over.
C19_Witness ==
    /\ pc = "batch_sent"
    /\ Len(kafka.messages) = 3
    /\ kafka.fate = <<"serialize_error", "produce_error", "ok">>
    /\ kafka.results.success_count = 1

\* C20: any failure inside save_audit_output is absorbed: the function
\* returns, the run goes on to close the producer and exits with code 0, and
\* the outcome of the publishing is what it is in the run whose output
\* directory works.
C20_AuditFailureAbsorbed ==
    (pc = "exited" /\ AllSettingsPresent /\ world.registry = "ok" /\ world.producer = "ok"
        /\ world.storage = "data" /\ world.predictor = "ok" /\ world.audit = "error") =>
        /\ run.exit_code = 0
        /\ Len(run.steps) >= 2
        /\ SubSeq(run.steps, Len(run.steps) - 1, Len(run.steps)) = <<"save_audit_output", "close">>
        /\ run.produced = RunMain(env, [world EXCEPT !.audit = "ok"]).produced

\* C21: when the underlying predictor rejects the input, both predict and
\* predict_proba fail with an error that reaches the caller and aborts the
\* run, so no run gets past the scoring with a rejecting predictor; and
\* predict_proba returns None only when the predictor does not support
\* probability output.
C21_RejectionPropagates ==
    pc \in {"predicted", "published"} =>
        /\ world.predictor.predict.kind # "reject"
        /\ world.predictor.proba.kind # "reject"
        /\ predict_proba(world.predictor) = NoProba =>
               world.predictor.proba.kind = "unsupported"

\* C22: preprocessing is idempotent: for every frame D and every model with
\* known expected features, preprocess_data applied to the output of
\* preprocess_data(D) returns a frame equal to that output: the same columns
\* in the same order, with the same types and the same values.
C22_PreprocessIdempotent ==
    (pc = "preprocessed_again" /\ get_expected_features(model_loader) # NoFeatures) =>
        /\ processed.columns = run.first_output.columns
        /\ processed.dtypes = run.first_output.dtypes
        /\ processed.rows = run.first_output.rows

\* C22's case: the first call changed the frame in every way it can (it added
\* an expected feature, dropped and reordered columns, filled two missing
\* cells of one numeric column), and preprocess_data ran on its output.
C22_Witness ==
    /\ pc = "preprocessed_again"
    /\ get_expected_features(model_loader) = <<"a", "c", "b">>
    /\ df.columns = <<"b", "x">> \o ProvenanceColumns
    /\ NRows(df) = 3
    /\ Cardinality({i \in 1..3 : df.rows[i]["b"] = NaN}) = 2
    /\ \A i \in 1..3 : run.first_output.rows[i]["b"] = 2

(***************************************************************************)
(* Model resolution (model_io.py): MLflowModelLoader over a model          *)
(* registry.  The registry holds the versions of one registered model:     *)
(*   [name, versions : sequence of [stage, run_id]]                        *)
(* where the i-th entry is version VersionNames[i].                        *)
(***************************************************************************)

MaxVersions == 2

VersionNames == <<"1", "2", "3", "4">>

\* The stages of the MLflow registry; "None" is the stage of a new version.
Stages == {"None", "Staging", "Production", "Archived"}

ModelNames == {"poem-model", "fraud-model"}

\* The ModelVersion entity the registry client returns for version i.
ModelVersion(registry, i) ==
    [name          |-> registry.name,
     version       |-> VersionNames[i],
     current_stage |-> registry.versions[i].stage,
     run_id        |-> registry.versions[i].run_id]

\* The versions of the model that are in the given stage.
VersionsIn(registry, stage) ==
    {i \in DOMAIN registry.versions : registry.versions[i].stage = stage}

\* The latest of a non-empty set of versions.
Latest(S) == CHOOSE i \in S : \A j \in S : j <= i

\* client.get_latest_versions(name, stages=[stage]): the latest version in
\* that stage, if there is one.
get_latest_versions(registry, name, stage) ==
    IF name # registry.name \/ VersionsIn(registry, stage) = {} THEN <<>>
    ELSE << ModelVersion(registry, Latest(VersionsIn(registry, stage))) >>

\* MLflowModelLoader.__init__
MLflowModelLoader(model_name, model_stage, model_version) ==
    [model_name |-> model_name, model_stage |-> model_stage,
     model_version |-> model_version, model |-> None, model_info |-> <<>>]

\* MLflowModelLoader.load_model: [raised, ml].  The model is loaded from
\* models:/name/version when a version was given and from models:/name/stage
\* (the latest version in the stage) otherwise; it raises when the registry
\* has no such entry.  model_info ends as the entry of the given version
\* (line 78) or as get_latest_versions for the stage (lines 70-73).
load_model(ml, registry) ==
    LET resolved ==
            IF ml.model_name # registry.name THEN {}
            ELSE IF ml.model_version # None
            THEN {i \in DOMAIN registry.versions : VersionNames[i] = ml.model_version}
            ELSE IF VersionsIn(registry, ml.model_stage) = {} THEN {}
            ELSE {Latest(VersionsIn(registry, ml.model_stage))}
    IN  IF resolved = {} THEN [raised |-> TRUE, ml |-> ml]
        ELSE [raised |-> FALSE,
              ml |-> [ml EXCEPT
                        !.model = VersionNames[CHOOSE i \in resolved : TRUE],
                        !.model_info =
                            IF ml.model_version # None
                            THEN << ModelVersion(registry, CHOOSE i \in resolved : TRUE) >>
                            ELSE get_latest_versions(registry, ml.model_name, ml.model_stage)]]

\* MLflowModelLoader.get_model_version, on the loader object.
LoadedVersion(ml) ==
    IF ml.model_info # <<>> THEN ml.model_info[1].version ELSE "unknown"

\* MLflowModelLoader.get_model_stage
get_model_stage(ml) ==
    IF ml.model_info # <<>> THEN ml.model_info[1].current_stage ELSE "unknown"

\* The loader object by what its getters return to generate_predictions.
LoadedAs(ml) ==
    [expected_features |-> NoFeatures, model_version |-> LoadedVersion(ml),
     class_names |-> <<"0", "1", "2">>]

\* The registries of up to MaxVersions versions.
Registries(n) ==
    { [name |-> m, versions |-> [i \in 1..n |-> [stage |-> st[i], run_id |-> i]]] :
        m \in ModelNames, st \in [1..n -> Stages] }

InitModel ==
    /\ pc = "start"
    /\ \E n \in 0..MaxVersions : \E registry \in Registries(n) :
          world = [registry |-> registry]
    /\ \E name \in ModelNames, stage \in {"Production", "Staging"},
          version \in {None} \cup {VersionNames[i] : i \in 1..MaxVersions} :
          model_loader = MLflowModelLoader(name, stage, version)
    /\ predictions = Unused
    /\ env = Unused /\ run = Unused /\ args = Unused /\ df = Unused
    /\ processed = Unused /\ kafka = Unused

\* model_loader.load_model()
LoadModel ==
    /\ pc = "start"
    /\ LET out == load_model(model_loader, world.registry)
       IN  /\ model_loader' = out.ml
           /\ pc' = IF out.raised THEN "load_failed" ELSE "model_loaded"
    /\ UNCHANGED <<env, world, run, args, df, processed, predictions, kafka>>

\* predictions = generate_predictions(processed_data, model_loader, args), for
\* a frame of one or two rows the predictor accepts.
ScoreWithModel ==
    /\ pc = "model_loaded"
    /\ \E n \in 1..2 :
         predictions' =
            generate_predictions(
                Frame(<<"a", "b">>, [i \in 1..n |-> [c \in {"a", "b"} |-> 0]],
                      [i \in 1..n |-> 1]),
                LoadedAs(model_loader), MainArgs,
                [predict |-> [kind |-> "values",
                              values |-> [i \in 1..n |-> [kind |-> "int", v |-> 1]]],
                 proba   |-> [kind |-> "unsupported", values |-> <<>>]]).results
    /\ pc' = "model_scored"
    /\ UNCHANGED <<env, world, run, model_loader, args, df, processed, kafka>>

NextModel == LoadModel \/ ScoreWithModel

SpecModel == InitModel /\ [][NextModel]_vars

\* C23: every prediction record identifies the model that was resolved and
\* loaded for the run: its model_name and model_stage are the name and the
\* stage of the loaded registry entry, and when an explicit version was
\* requested its model_version is that version, whatever its stage.
C23_RecordIdentifiesLoadedModel ==
    pc = "model_scored" =>
        \A r \in 1..NRows(predictions) :
            LET row == predictions.rows[r]
                entry == model_loader.model_info[1]
            IN  /\ row["model_name"] = entry.name
                /\ row["model_stage"] = entry.current_stage
                /\ row["model_version"] = entry.version
                /\ model_loader.model_version # None =>
                       row["model_version"] = model_loader.model_version

\* C24: the outcome batch_process_and_send_to_kafka returns always satisfies
\* successful_sends + failed_sends = total_predictions, whatever messages
\* failed to be built, failed inside send_batch or were in a batch whose send
\* failed as a whole; and success_rate = successful_sends / total_predictions
\* when total_predictions > 0, else 0.
C24_OutcomeAddsUp ==
    pc = "published" =>
        LET res == kafka.results
        IN  /\ res.successful_sends + res.failed_sends = res.total_predictions
            /\ res.total_predictions = NRows(predictions)
            /\ IF res.total_predictions > 0
               THEN res.success_rate = <<res.successful_sends, res.total_predictions>>
               ELSE res.success_rate[1] = 0

(***************************************************************************)
(* Credentials of the run (kafka_io.get_kafka_credentials and lines        *)
(* 404-411 of main).  The secret store is an input:                        *)
(*   [fate : "error" | "no_string" | "bad_json" | "string", fields]        *)
(* "error": get_secret_value raises; "no_string": the response has no      *)
(* SecretString; "bad_json": json.loads raises; "string": the SecretString *)
(* is a JSON object with the given fields.                                 *)
(***************************************************************************)

SecretFates == {"error", "no_string", "bad_json", "string"}

\* get_kafka_credentials(secret_arn): the dictionary returned; {} for no
\* identifier, for every exception, and for a response without SecretString.
get_kafka_credentials(secret_arn, secret) ==
    IF Falsy(secret_arn) THEN <<>>
    ELSE IF secret.fate # "string" THEN <<>>
    ELSE [k \in CredentialKeys |->
            IF k \in DOMAIN secret.fields THEN secret.fields[k]
            ELSE IF k = "ssl_ca_location" THEN "/etc/ssl/certs/ca-certificates.crt"
            ELSE ""]

InitSecret ==
    /\ pc = "start"
    /\ \E bootstrap \in BootstrapStrings, fate \in {"ok", "error"}, arn \in {None, "", "arn:secret"} :
          \/ \E sf \in SecretFates \ {"string"} :
                world = [bootstrap_servers |-> bootstrap, producer_fate |-> fate,
                         secret_arn |-> arn, secret |-> [fate |-> sf, fields |-> <<>>]]
          \/ \E keys \in SUBSET CredentialKeys : \E d \in CredentialDicts(keys) :
                world = [bootstrap_servers |-> bootstrap, producer_fate |-> fate,
                         secret_arn |-> arn, secret |-> [fate |-> "string", fields |-> d]]
    /\ kafka = Unused
    /\ env = Unused /\ run = Unused /\ model_loader = Unused /\ args = Unused
    /\ df = Unused /\ processed = Unused /\ predictions = Unused

\* Line 405: kafka_credentials = get_kafka_credentials(KAFKA_SECRET_ARN) if
\* KAFKA_SECRET_ARN else {}
ResolveCredentials ==
    /\ pc = "start"
    /\ run' = [kafka_credentials |->
                 IF ~Falsy(world.secret_arn)
                 THEN get_kafka_credentials(world.secret_arn, world.secret)
                 ELSE <<>>]
    /\ pc' = "credentials_resolved"
    /\ UNCHANGED <<env, world, model_loader, args, df, processed, predictions, kafka>>

\* Lines 406-411: kafka_producer = KafkaProducer(..., credentials=kafka_credentials)
ConstructProducer ==
    /\ pc = "credentials_resolved"
    /\ kafka' = NewKafkaProducerWith(world.bootstrap_servers, 60,
                                     [none |-> FALSE, dict |-> run.kafka_credentials],
                                     world.producer_fate)
    /\ pc' = IF kafka'.raised THEN "setup_failed" ELSE "constructed"
    /\ UNCHANGED <<env, world, run, model_loader, args, df, processed, predictions>>

NextSecret == ResolveCredentials \/ ConstructProducer

SpecSecret == InitSecret /\ [][NextSecret]_vars

\* C25: whenever a secret identifier is configured for the run, the producer
\* is never created with the unauthenticated PLAINTEXT mode and never with
\* SASL PLAIN using an empty username or password, also when the secret
\* cannot be retrieved, has no SecretString, or lacks the username or
\* password field.
C25_SecretNeverDowngraded ==
    (pc = "constructed" /\ ~Falsy(world.secret_arn)) =>
        /\ AuthMode(kafka.config)[1] # "PLAINTEXT"
        /\ AuthMode(kafka.config) = <<"SASL_SSL", "PLAIN">> =>
              /\ kafka.config["sasl.username"] # ""
              /\ kafka.config["sasl.password"] # ""

(***************************************************************************)
(* The training launcher (default_launcher.py): the Lambda handler that    *)
(* creates a SageMaker training job.  Invocations of the handler may       *)
(* overlap; each reads the clock once (line 25) and calls                  *)
(* create_training_job once (line 91).                                     *)
(*   env   : the environment of the function                               *)
(*   world : [clock, jobs]  the clock in ticks, and the names of the       *)
(*           training jobs SageMaker holds                                 *)
(*   run   : one record per invocation                                     *)
(***************************************************************************)

MaxInvocations == 2

MaxClock == 2

TicksPerSecond == 2

Unset == "<unset>"

\* datetime.now().strftime("%Y%m%d-%H%M%S"): the time to the second.
Timestamp(clock) == clock \div TicksPerSecond

\* int(text): [raised, value].
ParseInt(text) ==
    CASE text = "1"  -> [raised |-> FALSE, value |-> 1]
      [] text = "2"  -> [raised |-> FALSE, value |-> 2]
      [] text = "30" -> [raised |-> FALSE, value |-> 30]
      [] OTHER       -> [raised |-> TRUE, value |-> 0]

\* json.loads(text): [raised, value]; a JSON object becomes a dictionary.
json_loads(text) ==
    CASE text = "{}"             -> [raised |-> FALSE, value |-> <<>>]
      [] text = "{\"k\": \"v\"}" -> [raised |-> FALSE, value |-> ("k" :> "v")]
      [] OTHER                   -> [raised |-> TRUE, value |-> <<>>]

\* Mutant of OptionalSection: a value that cannot be parsed is an error of the
\* handler.
OptionalSectionStrict(e, name, key) ==
    LET text == Getenv(e, name, None)
    IN  IF Falsy(text) THEN [raised |-> FALSE, section |-> <<>>]
        ELSE IF json_loads(text).raised THEN [raised |-> TRUE, section |-> <<>>]
        ELSE IF json_loads(text).value = <<>> THEN [raised |-> FALSE, section |-> <<>>]
        ELSE [raised |-> FALSE, section |-> (key :> json_loads(text).value)]

\* Lines 51-59, 62-70, 73-81: the section of the configuration read from the
\* variable `name`; nothing for a variable that is unset or empty, for a
\* value that cannot be parsed, and for a parsed value that is empty.
OptionalSection(e, name, key) ==
    LET text == Getenv(e, name, None)
    IN  IF Falsy(text) THEN [raised |-> FALSE, section |-> <<>>]
        ELSE IF json_loads(text).raised THEN [raised |-> FALSE, section |-> <<>>]
        ELSE IF json_loads(text).value = <<>> THEN [raised |-> FALSE, section |-> <<>>]
        ELSE [raised |-> FALSE, section |-> (key :> json_loads(text).value)]

\* Lines 24-88: the configuration of the job, [raised, config]; os.environ[...]
\* raises KeyError for a variable that is unset, int(...) ValueError.
TrainingConfig(e, timestamp) ==
    LET count == ParseInt(Getenv(e, "INSTANCE_COUNT", "1"))
        input == OptionalSection(e, "INPUT_DATA_CONFIG", "InputDataConfig")
        hyper == OptionalSection(e, "HYPERPARAMETERS", "HyperParameters")
        envir == OptionalSection(e, "ENVIRONMENT_VARIABLES", "Environment")
    IN  IF e["TRAINING_ROLE_ARN"] = Unset \/ count.raised
           \/ input.raised \/ hyper.raised \/ envir.raised
        THEN [raised |-> TRUE, config |-> <<>>]
        ELSE [raised |-> FALSE,
              config |->
                 ("TrainingJobName" :>
                      <<Getenv(e, "TRAINING_JOB_NAME_PREFIX", "ml-training"), timestamp>>)
                 @@ ("RoleArn" :> e["TRAINING_ROLE_ARN"])
                 @@ ("InstanceCount" :> count.value)
                 @@ input.section @@ hyper.section @@ envir.section
                 @@ ("LaunchTime" :> timestamp)]

\* sagemaker.create_training_job(**training_config): [raised, jobs, arn].  It
\* raises when the service fails or holds a job of that name already.
create_training_job(config, jobs, fate) ==
    IF fate # "ok" \/ config["TrainingJobName"] \in jobs
    THEN [raised |-> TRUE, jobs |-> jobs, arn |-> None]
    ELSE [raised |-> FALSE, jobs |-> jobs \cup {config["TrainingJobName"]},
          arn |-> "arn:" ]

\* Lines 96-104 and 110-117: the responses of the handler.
Response200(training_job_name, arn, timestamp) ==
    [statusCode |-> 200, trainingJobName |-> training_job_name,
     trainingJobArn |-> arn, timestamp |-> timestamp]

Response500 ==
    [statusCode |-> 500, trainingJobName |-> <<>>, trainingJobArn |-> None, timestamp |-> 0]

Idle ==
    [at |-> "idle", config |-> <<>>, calls |-> 0, created |-> FALSE, response |-> <<>>]

LauncherEnvs ==
    { ("TRAINING_ROLE_ARN" :> role) @@ ("TRAINING_JOB_NAME_PREFIX" :> prefix)
      @@ ("INSTANCE_COUNT" :> count) @@ ("INPUT_DATA_CONFIG" :> input)
      @@ ("HYPERPARAMETERS" :> hyper) @@ ("ENVIRONMENT_VARIABLES" :> envir) :
        role \in {Unset, "arn:role"}, prefix \in {Unset, "poem-training"},
        count \in {Unset, "2", "two"},
        input \in {Unset, "", "{bad", "{}", "{\"k\": \"v\"}"},
        hyper \in {Unset, "{bad", "{\"k\": \"v\"}"},
        envir \in {Unset, "{bad", "{\"k\": \"v\"}"} }

InitLaunch ==
    /\ pc = "serving"
    /\ env \in LauncherEnvs
    /\ world = [clock |-> 0, jobs |-> {}]
    /\ \E n \in 1..MaxInvocations : run = [i \in 1..n |-> Idle]
    /\ model_loader = Unused /\ args = Unused /\ df = Unused
    /\ processed = Unused /\ predictions = Unused /\ kafka = Unused

\* Time passes.
Tick ==
    /\ world.clock < MaxClock
    /\ world' = [world EXCEPT !.clock = @ + 1]
    /\ UNCHANGED <<pc, env, run, model_loader, args, df, processed, predictions, kafka>>

\* Lines 21-89 of an invocation: the name is made from the clock and the
\* configuration is built; an exception ends the invocation with the
\* response of lines 106-118.
Configure ==
    /\ \E i \in DOMAIN run :
         /\ run[i].at = "idle"
         /\ LET built == TrainingConfig(env, Timestamp(world.clock))
            IN  run' = [run EXCEPT ![i] =
                          IF built.raised
                          THEN [@ EXCEPT !.at = "done", !.response = Response500]
                          ELSE [@ EXCEPT !.at = "configured", !.config = built.config]]
    /\ UNCHANGED <<pc, env, world, model_loader, args, df, processed, predictions, kafka>>

\* Lines 91-104 of an invocation, or lines 106-118 when the call raises.
CreateJob ==
    /\ \E i \in DOMAIN run, fate \in {"ok", "error"} :
         /\ run[i].at = "configured"
         /\ LET out == create_training_job(run[i].config, world.jobs, fate)
            IN  /\ world' = [world EXCEPT !.jobs = out.jobs]
                /\ run' = [run EXCEPT ![i] =
                             [@ EXCEPT !.at = "done", !.calls = @ + 1,
                                       !.created = ~out.raised,
                                       !.response =
                                           IF out.raised THEN Response500
                                           ELSE Response200(run[i].config["TrainingJobName"],
                                                            out.arn,
                                                            run[i].config["LaunchTime"])]]
    /\ UNCHANGED <<pc, env, model_loader, args, df, processed, predictions, kafka>>

NextLaunch == Tick \/ Configure \/ CreateJob

SpecLaunch == InitLaunch /\ [][NextLaunch]_vars

\* C26: any two invocations of the handler with the same job-name prefix,
\* also two that start within the same second or overlap, generate distinct
\* TrainingJobName values.
C26_DistinctJobNames ==
    \A i, j \in DOMAIN run :
        (i # j /\ run[i].at # "idle" /\ run[j].at # "idle"
            /\ run[i].config # <<>> /\ run[j].config # <<>>) =>
            run[i].config["TrainingJobName"] # run[j].config["TrainingJobName"]

\* C27: the handler never propagates an exception: for every event and
\* environment it calls create_training_job at most once, returns statusCode
\* 200 with the job name and ARN exactly when that call succeeded, and 500
\* otherwise; an INPUT_DATA_CONFIG, HYPERPARAMETERS or ENVIRONMENT_VARIABLES
\* value that cannot be parsed only omits its section and does not keep the
\* job from being created.
C27_HandlerAlwaysResponds ==
    \A i \in DOMAIN run :
        /\ run[i].calls <= 1
        /\ run[i].at = "done" =>
              /\ run[i].response.statusCode \in {200, 500}
              /\ (run[i].response.statusCode = 200) <=> run[i].created
              /\ run[i].created =>
                    /\ run[i].calls = 1
                    /\ run[i].response.trainingJobName = run[i].config["TrainingJobName"]
                    /\ run[i].response.trainingJobName \in world.jobs
                    /\ run[i].response.trainingJobArn # None
              /\ (env["TRAINING_ROLE_ARN"] # Unset
                    /\ ~ParseInt(Getenv(env, "INSTANCE_COUNT", "1")).raised) =>
                    /\ run[i].calls = 1
                    /\ (env["INPUT_DATA_CONFIG"] = "{bad") =>
                          "InputDataConfig" \notin DOMAIN run[i].config
                    /\ (env["HYPERPARAMETERS"] = "{bad") =>
                          "HyperParameters" \notin DOMAIN run[i].config
                    /\ (env["ENVIRONMENT_VARIABLES"] = "{bad") =>
                          "Environment" \notin DOMAIN run[i].config
                    /\ (env["HYPERPARAMETERS"] = "{\"k\": \"v\"}") =>
                          run[i].config["HyperParameters"] = ("k" :> "v")

\* C27's case: an invocation whose three optional values cannot be parsed
\* created its job and answered 200, and an overlapping one was refused by
\* the service and answered 500.
C27_Witness ==
    /\ env["INPUT_DATA_CONFIG"] = "{bad"
    /\ env["HYPERPARAMETERS"] = "{bad"
    /\ env["ENVIRONMENT_VARIABLES"] = "{bad"
    /\ \E i, j \in DOMAIN run :
          /\ run[i].at = "done" /\ run[i].response.statusCode = 200
          /\ run[j].at = "done" /\ run[j].response.statusCode = 500 /\ run[j].calls = 1

(***************************************************************************)
(* promote_model_to_production (train.py) over the model registry.  Every  *)
(* call of the registry client is one step, and either is performed or     *)
(* raises; an exception ends the function with "unknown" (lines 411-414).  *)
(*   world : [registry]                                                    *)
(*   run   : [at, run_id, had_production, model_version,                   *)
(*            production_versions, result]                                 *)
(***************************************************************************)

\* The number of the version of the given name.
VersionIndex(version) == CHOOSE i \in DOMAIN VersionNames : VersionNames[i] = version

\* client.search_model_versions(f"name='{model_name}'") and the loop of lines
\* 354-357: the version registered by the run, None when there is none.
version_of_run(registry, run_id) ==
    LET found == {i \in DOMAIN registry.versions : registry.versions[i].run_id = run_id}
    IN  IF found = {} THEN None ELSE VersionNames[Latest(found)]

\* client.transition_model_version_stage(name, version, stage,
\* archive_existing_versions): the version moves to the stage, and the
\* versions that were in that stage move to Archived.
transition_model_version_stage(registry, version, stage, archive_existing_versions) ==
    [registry EXCEPT !.versions =
        [i \in DOMAIN registry.versions |->
            IF i = VersionIndex(version) THEN [registry.versions[i] EXCEPT !.stage = stage]
            ELSE IF archive_existing_versions /\ registry.versions[i].stage = stage
            THEN [registry.versions[i] EXCEPT !.stage = "Archived"]
            ELSE registry.versions[i]]]

\* Lines 411-414.
ReturnUnknown(r) == [r EXCEPT !.at = "returned", !.result = "unknown"]

\* A scoring run that resolves the Production stage of the model now finds a
\* version (MLflowModelLoader(name).load_model() does not raise).
ScoringRunResolves(registry) ==
    ~load_model(MLflowModelLoader(registry.name, "Production", None), registry).raised

InitPromote ==
    /\ pc = "training"
    /\ \E n \in 0..MaxVersions : \E registry \in Registries(n) :
          /\ world = [registry |-> registry]
          /\ \E run_id \in 1..(MaxVersions + 1) :
                run = [at |-> "start", run_id |-> run_id,
                       had_production |-> ScoringRunResolves(registry),
                       model_version |-> None, production_versions |-> <<>>,
                       result |-> None]
    /\ env = Unused /\ model_loader = Unused /\ args = Unused /\ df = Unused
    /\ processed = Unused /\ predictions = Unused /\ kafka = Unused

\* Line 350: latest_versions = client.get_latest_versions(...)
ListLatest ==
    /\ pc = "training" /\ run.at = "start"
    /\ \E fate \in {"ok", "error"} :
          run' = IF fate = "ok" THEN [run EXCEPT !.at = "listed"] ELSE ReturnUnknown(run)
    /\ UNCHANGED <<pc, env, world, model_loader, args, df, processed, predictions, kafka>>

\* Lines 353-371: the version of the run is looked up (twice when it is not
\* found at first); ValueError when there is none.
FindVersion ==
    /\ pc = "training" /\ run.at = "listed"
    /\ \E fate \in {"ok", "error"} :
          LET model_version == version_of_run(world.registry, run.run_id)
          IN  run' = IF fate = "ok" /\ model_version # None
                     THEN [run EXCEPT !.at = "found", !.model_version = model_version]
                     ELSE ReturnUnknown(run)
    /\ UNCHANGED <<pc, env, world, model_loader, args, df, processed, predictions, kafka>>

\* Line 379: production_versions = client.get_latest_versions(model_name, stages=["Production"])
ListProduction ==
    /\ pc = "training" /\ run.at = "found"
    /\ \E fate \in {"ok", "error"} :
          run' = IF fate = "ok"
                 THEN [run EXCEPT !.at = "archiving",
                                  !.production_versions =
                                      get_latest_versions(world.registry, world.registry.name,
                                                          "Production")]
                 ELSE ReturnUnknown(run)
    /\ UNCHANGED <<pc, env, world, model_loader, args, df, processed, predictions, kafka>>

\* Lines 380-387: one turn of the loop that moves the Production versions to
\* Archived.
ArchivePrevious ==
    /\ pc = "training" /\ run.at = "archiving" /\ run.production_versions # <<>>
    /\ \E fate \in {"ok", "error"} :
          IF fate = "ok"
          THEN /\ world' = [world EXCEPT !.registry =
                              transition_model_version_stage(
                                  @, Head(run.production_versions).version, "Archived", TRUE)]
               /\ run' = [run EXCEPT !.production_versions = Tail(@)]
          ELSE /\ run' = ReturnUnknown(run)
               /\ UNCHANGED world
    /\ UNCHANGED <<pc, env, model_loader, args, df, processed, predictions, kafka>>

\* Lines 390-396: the version of the run moves to Production.
Promote ==
    /\ pc = "training" /\ run.at = "archiving" /\ run.production_versions = <<>>
    /\ \E fate \in {"ok", "error"} :
          IF fate = "ok"
          THEN /\ world' = [world EXCEPT !.registry =
                              transition_model_version_stage(
                                  @, run.model_version, "Production", TRUE)]
               /\ run' = [run EXCEPT !.at = "promoted"]
          ELSE /\ run' = ReturnUnknown(run)
               /\ UNCHANGED world
    /\ UNCHANGED <<pc, env, model_loader, args, df, processed, predictions, kafka>>

\* Lines 399-409: the description is updated and the version returned.
DescribeAndReturn ==
    /\ pc = "training" /\ run.at = "promoted"
    /\ \E fate \in {"ok", "error"} :
          run' = IF fate = "ok"
                 THEN [run EXCEPT !.at = "returned", !.result = run.model_version]
                 ELSE ReturnUnknown(run)
    /\ UNCHANGED <<pc, env, world, model_loader, args, df, processed, predictions, kafka>>

NextPromote ==
    \/ ListLatest \/ FindVersion \/ ListProduction
    \/ ArchivePrevious \/ Promote \/ DescribeAndReturn

SpecPromote == InitPromote /\ [][NextPromote]_vars

MaxCalls == 3

MaxBatchLen == 2

\* Mutant of close: without the finally clause, a flush that fails leaves the
\* handle in place.
close_without_finally(kp) ==
    IF kp.producer = "None" THEN kp
    ELSE IF kp.transport = "flush_raises" THEN flush(kp)
    ELSE [flush(kp) EXCEPT !.producer = "None"]

\* KafkaProducer.close: a live producer is flushed, and released whatever the
\* flush did; nothing happens to a producer without a handle.
close(kp) ==
    IF kp.producer = "None" THEN kp
    ELSE [flush(kp) EXCEPT !.producer = "None"]

\* The number of Producer.produce calls that returned.
ProduceCount(kp) == Cardinality(ProduceCalls(kp.log))

InitLife ==
    /\ pc = "in_use"
    /\ \E transport \in Transports : kafka = [kp |-> KafkaProducerOn(transport)]
    /\ run = [calls |-> 0, closed |-> FALSE,
              last |-> [op |-> "init", raised |-> FALSE, before |-> NewKafkaProducer]]
    /\ env = Unused /\ world = Unused /\ model_loader = Unused /\ args = Unused
    /\ df = Unused /\ processed = Unused /\ predictions = Unused

\* The bookkeeping of one call.
Called(op, raised) ==
    run' = [run EXCEPT !.calls = @ + 1,
                       !.closed = @ \/ op = "close",
                       !.last = [op |-> op, raised |-> raised, before |-> kafka.kp]]

\* kafka_producer.send_message(message)
SendMessage ==
    /\ pc = "in_use" /\ run.calls < MaxCalls
    /\ \E fate \in Fates :
         LET out == send_message(kafka.kp, [text |-> "m"], 0, fate)
         IN  /\ kafka' = [kp |-> out.kp]
             /\ Called("send_message", out.raised)
    /\ UNCHANGED <<pc, env, world, model_loader, args, df, processed, predictions>>

\* kafka_producer.send_batch(messages)
SendMessages ==
    /\ pc = "in_use" /\ run.calls < MaxCalls
    /\ \E n \in 0..MaxBatchLen : \E fates \in [1..n -> Fates] :
         LET out == send_batch(kafka.kp, [i \in 1..n |-> [text |-> "m"]], fates)
         IN  /\ kafka' = [kp |-> out.kp]
             /\ Called("send_batch", out.raised)
    /\ UNCHANGED <<pc, env, world, model_loader, args, df, processed, predictions>>

\* kafka_producer.flush()
Flush ==
    /\ pc = "in_use" /\ run.calls < MaxCalls
    /\ kafka' = [kp |-> flush(kafka.kp)]
    /\ Called("flush", FALSE)
    /\ UNCHANGED <<pc, env, world, model_loader, args, df, processed, predictions>>

\* kafka_producer.close()
Close ==
    /\ pc = "in_use" /\ run.calls < MaxCalls
    /\ kafka' = [kp |-> close(kafka.kp)]
    /\ Called("close", FALSE)
    /\ UNCHANGED <<pc, env, world, model_loader, args, df, processed, predictions>>

NextLife == SendMessage \/ SendMessages \/ Flush \/ Close

SpecLife == InitLife /\ [][NextLife]_vars

\* C29: after close() the handle is released in every case, also when the
\* final flush fails; from then on send_message and send_batch fail with an
\* error and produce nothing, flush and a second close are no-ops, and
\* message_count is unchanged; before close, message_count is the number of
\* produce calls that succeeded, and it never decreases.
C29_ProducerLifecycle ==
    LET kp == kafka.kp
        before == run.last.before
    IN  /\ run.closed => kp.producer = "None"
        /\ (run.last.op # "init" /\ before.producer = "None") =>
              /\ kp.log = before.log
              /\ kp.message_count = before.message_count
              /\ kp.producer = "None"
              /\ run.last.op \in {"send_message", "send_batch"} => run.last.raised
              /\ run.last.op \in {"flush", "close"} => ~run.last.raised
        /\ ~run.closed => kp.producer = "Producer"
        /\ kp.message_count = ProduceCount(kp)
        /\ kp.message_count >= before.message_count

\* C29's case: a producer that had sent a message was closed over a
\* transport whose flush raises, and a send was attempted afterwards.
C29_Witness ==
    /\ run.calls = 3
    /\ run.closed
    /\ kafka.kp.transport = "flush_raises"
    /\ kafka.kp.message_count = 1
    /\ run.last.op \in {"send_message", "send_batch"}
    /\ run.last.before.producer = "None"

(***************************************************************************)
(* generate_params_json.py: main writes the pipeline parameters and the    *)
(* EventBridge rule configuration.  A path is a sequence of pieces of      *)
(* text, <<>> for an --output-file that was not given; the file system is  *)
(* a function from paths to what was written last.                         *)
(*   args  : [output_file, dry_run, pipeline_type, environment]            *)
(*   world : [files, clock]                                                *)
(***************************************************************************)

\* str.replace(old, new), for a text whose occurrences of `old` are pieces.
StrReplace(text, old, new) ==
    [i \in DOMAIN text |-> IF text[i] = old THEN new ELSE text[i]]

\* save_parameters(parameters, output_file): the file is opened with "w".
save_parameters(files, parameters, output_file) == (output_file :> parameters) @@ files

\* generate_training_parameters / generate_inference_parameters, by what the
\* parameters were generated for.
generate_parameters(a) ==
    [holds |-> "pipeline parameters", pipeline_type |-> a.pipeline_type,
     environment |-> a.environment]

\* generate_eventbridge_rule_json
generate_eventbridge_rule_json(a, parameters) ==
    [holds |-> "eventbridge rule", pipeline_type |-> a.pipeline_type,
     environment |-> a.environment]

\* datetime.utcnow().strftime("%Y%m%d-%H%M%S") at the given second.
UtcStamp(clock) == <<"20250101-000000", "20250101-000001", "20250101-000002">>[clock + 1]

\* Lines 294-298: the file name made up when none was given.
DefaultOutputFile(a, clock) ==
    <<"parameters/", a.pipeline_type, "-", a.environment, "-", UtcStamp(clock), ".json">>

OutputFiles ==
    { <<>>, <<"params", ".json">>, <<"params", ".txt">>, <<"params">>,
      <<"out", ".json", "/params", ".json">>, <<"conf/", "params", ".JSON">> }

InitParams ==
    /\ pc = "start"
    /\ args \in [output_file : OutputFiles, dry_run : BOOLEAN,
                 pipeline_type : {"training", "inference"},
                 environment : {"staging", "prod"}]
    /\ \E clock \in 0..2 : world = [files |-> <<>>, clock |-> clock]
    /\ run = Unused
    /\ env = Unused /\ model_loader = Unused /\ df = Unused
    /\ processed = Unused /\ predictions = Unused /\ kafka = Unused

\* main()
GenerateParams ==
    /\ pc = "start"
    /\ LET parameters == generate_parameters(args)
           output_file == IF args.output_file = <<>>
                          THEN DefaultOutputFile(args, world.clock)
                          ELSE args.output_file
           rule_config == generate_eventbridge_rule_json(args, parameters)
           rule_file == StrReplace(output_file, ".json", "-eventbridge-rule.json")
       IN  /\ run' = [parameters |-> parameters, rule_config |-> rule_config,
                      output_file |-> output_file, rule_file |-> rule_file]
           /\ world' = [world EXCEPT !.files =
                          IF args.dry_run THEN @
                          ELSE save_parameters(save_parameters(@, parameters, output_file),
                                               rule_config, rule_file)]
    /\ pc' = "done"
    /\ UNCHANGED <<env, model_loader, args, df, processed, predictions, kafka>>

NextParams == GenerateParams

SpecParams == InitParams /\ [][NextParams]_vars

\* C30: a run that is no dry run writes the parameters and the EventBridge
\* rule configuration to two distinct files, so that afterwards the
\* parameters file still holds the generated parameters, for every value of
\* --output-file; a dry run writes no file.
C30_TwoDistinctFiles ==
    pc = "done" =>
        IF args.dry_run THEN DOMAIN world.files = {}
        ELSE /\ run.rule_file # run.output_file
             /\ DOMAIN world.files = {run.output_file, run.rule_file}
             /\ world.files[run.output_file] = run.parameters
             /\ world.files[run.rule_file] = run.rule_config

====
